---------------------------- MODULE Spec2Model ----------------------------
(***************************************************************************)
(* Client reconciler of the coedit collaborative editor.                   *)
(*                                                                         *)
(* A text is a sequence of Unicode code points (integers), which is what   *)
(* the spread [...s] of the source yields for a well-formed string.  A     *)
(* code point above 65535 takes two UTF-16 units, so String.length and the *)
(* number of code points differ on such texts.                             *)
(***************************************************************************)
EXTENDS Integers, Sequences, FiniteSets, TLC

(***************************************************************************)
(* Bounds of the model.                                                    *)
(***************************************************************************)
MaxDiffLen == 3

\* Largest pos and len of the ops handed to applyOps on their own.
MaxPos == 4

\* Longest text a user types into the textarea.
MaxLen == 3

\* Op ids one page session draws (user edits and repair edits together).
MaxOpIds == 2

\* Text changes the users make, over all clients.
MaxEdits == 2

\* Socket closes and ticks of the 10 s reconcile interval, over all clients.
MaxEnvSteps == 1

\* Snapshot fetches of reconcileWithServer one client has in flight.
MaxInflight == 1

\* The page sessions editing the document; the number is the author id.
Clients == {1, 2}

\* Code points the texts are drawn from: "a" (one UTF-16 unit) and U+1F600
\* (two UTF-16 units).
Chars == {97, 128512}

\* The characters the users type: "a".
Typed == {97}

Min(a, b) == IF a < b THEN a ELSE b

Max(a, b) == IF a > b THEN a ELSE b

TextsUpTo(n) == UNION {[1..k -> Chars] : k \in 0..n}

(***************************************************************************)
(* JavaScript string and array primitives the source relies on.            *)
(***************************************************************************)
\* Number of UTF-16 units of one code point.
Utf16Units(cp) == IF cp > 65535 THEN 2 ELSE 1

RECURSIVE StrLength(_)
\* String.prototype.length of the string whose code points are s.
StrLength(s) == IF s = <<>> THEN 0 ELSE Utf16Units(Head(s)) + StrLength(Tail(s))

\* Array.prototype.slice(from, to) on a zero-based array, for from, to >= 0.
Slice(s, from, to) == SubSeq(s, from + 1, Min(to, Len(s)))

\* A slice(from) that keeps the last element when from is past the end.
SliceFromKeepsLast(s, from) ==
  IF s = <<>> THEN <<>> ELSE SubSeq(s, Min(from, Len(s) - 1) + 1, Len(s))

\* Array.prototype.slice(from).
SliceFrom(s, from) == SubSeq(s, from + 1, Len(s))

(***************************************************************************)
(* lib/ot: applyOps and diffToOps.                                         *)
(***************************************************************************)
InsertOp(pos, text) == [type |-> "insert", pos |-> pos, text |-> text]

DeleteOp(pos, len) == [type |-> "delete", pos |-> pos, len |-> len]

\* One iteration of the loop of applyOps.
applyOp(s, op) ==
  IF op.type = "insert"
    THEN Slice(s, 0, op.pos) \o op.text \o SliceFrom(s, op.pos)
    ELSE Slice(s, 0, op.pos) \o SliceFrom(s, op.pos + op.len)

RECURSIVE applyOps(_, _)
applyOps(content, ops) ==
  IF ops = <<>> THEN content
  ELSE applyOps(applyOp(content, Head(ops)), Tail(ops))

RECURSIVE scanPrefix(_, _, _)
\* while (i < a.length && i < b.length && a[i] === b[i]) i++
scanPrefix(a, b, i) ==
  IF i < Len(a) /\ i < Len(b) /\ a[i + 1] = b[i + 1]
    THEN scanPrefix(a, b, i + 1)
    ELSE i

RECURSIVE scanSuffixUnbounded(_, _, _, _)
\* The suffix scan without its  j < length - i  guards: the common suffix
\* may then overlap the common prefix.
scanSuffixUnbounded(a, b, i, j) ==
  IF j < Len(a) /\ j < Len(b) /\ a[Len(a) - j] = b[Len(b) - j]
    THEN scanSuffixUnbounded(a, b, i, j + 1)
    ELSE j

RECURSIVE scanSuffix(_, _, _, _)
\* while (j < a.length - i && j < b.length - i
\*        && a[a.length - 1 - j] === b[b.length - 1 - j]) j++
scanSuffix(a, b, i, j) ==
  IF j < Len(a) - i /\ j < Len(b) - i /\ a[Len(a) - j] = b[Len(b) - j]
    THEN scanSuffix(a, b, i, j + 1)
    ELSE j

diffToOps(before, after) ==
  IF before = after THEN <<>>
  ELSE
    LET i == scanPrefix(before, after, 0)
        j == scanSuffix(before, after, i, 0)
        beforeMid == Slice(before, i, Len(before) - j)
        afterMid == Slice(after, i, Len(after) - j)
    IN  (IF StrLength(beforeMid) > 0
           THEN <<DeleteOp(i, StrLength(beforeMid))>> ELSE <<>>)
        \o
        (IF StrLength(afterMid) > 0
           THEN <<InsertOp(i, afterMid)>> ELSE <<>>)


(***************************************************************************)
(* lib/realtime: PendingQueue.  A queue is [q, latestAck]; a PendingEdit   *)
(* is [op_id, base_rev, ops] (its cursor_before, cursor_after and ts are   *)
(* carried along unread by the reconciler and are left out).               *)
(***************************************************************************)
\* An absent op_id (opId undefined in an ack).
NoId == <<>>

NewPendingQueue == [q |-> <<>>, latestAck |-> 0]

enqueue(pq, edit) == [pq EXCEPT !.q = Append(@, edit)]

\* An ack that advances latestAck and leaves the entries where they are.
ackKeepsEntries(pq, opId, serverSeq) ==
  [q |-> pq.q,
   latestAck |-> IF serverSeq > pq.latestAck THEN serverSeq ELSE pq.latestAck]

\* An ack that empties the queue.
ackClears(pq, opId, serverSeq) ==
  [q |-> <<>>,
   latestAck |-> IF serverSeq > pq.latestAck THEN serverSeq ELSE pq.latestAck]

ack(pq, opId, serverSeq) ==
  [q |-> IF opId # NoId
           THEN SelectSeq(pq.q, LAMBDA entry : entry.op_id # opId)
           ELSE pq.q,
   latestAck |-> IF serverSeq > pq.latestAck THEN serverSeq ELSE pq.latestAck]

\* A base revision that is always the first one.
latestServerSeqInitial(pq) == 0

latestServerSeq(pq) == pq.latestAck

\* A setLatestServerSeq that takes any seq.
setLatestServerSeqAssigns(pq, seq) == [pq EXCEPT !.latestAck = seq]

setLatestServerSeq(pq, seq) ==
  IF seq > pq.latestAck THEN [pq EXCEPT !.latestAck = seq] ELSE pq

\* A flush that hands the edits to the sender newest first.
flushReversed(pq) == [k \in 1..Len(pq.q) |-> pq.q[Len(pq.q) + 1 - k]]

\* The edits flush hands to its sender, in the order it hands them.
flush(pq) == pq.q

isEmpty(pq) == Len(pq.q) = 0

\* snapshot() / toJSON(): what JSON.stringify(queue) stores.
toJSON(pq) == [latestAck |-> pq.latestAck, items |-> pq.q]

(***************************************************************************)
(* Frames on the WebSocket.                                                *)
(***************************************************************************)
EditFrame(c, edit) ==
  [type |-> "edit",
   edit |-> [base_rev |-> edit.base_rev, ops |-> edit.ops,
             client_id |-> c, op_id |-> edit.op_id]]

AppliedFrame(rev, ops, author, opId) ==
  [type |-> "applied", rev |-> rev, ops |-> ops,
   client_id |-> author, op_id |-> opId]

ErrorFrame(reason, opId) == [type |-> "error", reason |-> reason, op_id |-> opId]

\* No snapshot fetch in flight.
NoFetch == [st |-> "none", rev |-> 0, content |-> <<>>]

(***************************************************************************)
(* The server: operational transform and apply_edit.                       *)
(***************************************************************************)
\* Transform window W.
TransformWindow == 1

\* transform(op_a, op_b): op_a as if issued after op_b; zero to two ops.
Transform(a, b, authorA, authorB) ==
  CASE a.type = "insert" /\ b.type = "insert" ->
         IF a.pos < b.pos \/ (a.pos = b.pos /\ authorA < authorB)
           THEN <<a>>
           ELSE <<InsertOp(a.pos + Len(b.text), a.text)>>
    [] a.type = "insert" /\ b.type = "delete" ->
         IF a.pos <= b.pos THEN <<a>>
         ELSE IF a.pos >= b.pos + b.len THEN <<InsertOp(a.pos - b.len, a.text)>>
         ELSE <<InsertOp(b.pos, a.text)>>
    [] a.type = "delete" /\ b.type = "insert" ->
         IF b.pos <= a.pos THEN <<DeleteOp(a.pos + Len(b.text), a.len)>>
         ELSE IF b.pos >= a.pos + a.len THEN <<a>>
         ELSE <<DeleteOp(a.pos, b.pos - a.pos),
                DeleteOp(b.pos + Len(b.text), a.len - (b.pos - a.pos))>>
    [] OTHER ->
         LET a2 == a.pos + a.len
             b2 == b.pos + b.len
             overlap == Max(0, Min(a2, b2) - Max(a.pos, b.pos))
             pos == IF a.pos <= b.pos THEN a.pos
                    ELSE IF a.pos >= b2 THEN a.pos - b.len
                    ELSE b.pos
         IN  IF a.len - overlap = 0 THEN <<>>
             ELSE <<DeleteOp(pos, a.len - overlap)>>

RECURSIVE TransformOps(_, _, _, _)
\* A multi-op edit is transformed element-wise.
TransformOps(ops, b, authorA, authorB) ==
  IF ops = <<>> THEN <<>>
  ELSE Transform(Head(ops), b, authorA, authorB)
         \o TransformOps(Tail(ops), b, authorA, authorB)

RECURSIVE TransformAgainstLog(_, _, _)
\* transform_against_log: fold through the applied ops after base_rev.
TransformAgainstLog(ops, author, log) ==
  IF log = <<>> THEN ops
  ELSE TransformAgainstLog(
         TransformOps(ops, Head(log).op, author, Head(log).author),
         author, Tail(log))

\* Text buffer apply with clamping.
BufferApply(text, op) ==
  LET pos == Min(op.pos, Len(text))
  IN  IF op.type = "insert"
        THEN SubSeq(text, 1, pos) \o op.text \o SubSeq(text, pos + 1, Len(text))
        ELSE SubSeq(text, 1, pos)
               \o SubSeq(text, pos + Min(op.len, Len(text) - pos) + 1, Len(text))

RECURSIVE BufferApplyAll(_, _)
BufferApplyAll(text, ops) ==
  IF ops = <<>> THEN text
  ELSE BufferApplyAll(BufferApply(text, Head(ops)), Tail(ops))

\* Steps 4-6 of apply_edit on an accepted request.
Accept(srv, e) ==
  LET ops == TransformAgainstLog(e.ops, e.client_id,
                                 SubSeq(srv.log, e.base_rev + 1, srv.rev))
      rev == srv.rev + Len(ops)
  IN  [text |-> BufferApplyAll(srv.text, ops),
       rev |-> rev,
       log |-> srv.log \o [k \in 1..Len(ops) |->
                 [rev |-> srv.rev + k, op |-> ops[k],
                  author |-> e.client_id, op_id |-> e.op_id]],
       accepted |-> srv.accepted \cup
                      {[op_id |-> e.op_id, rev |-> rev, ops |-> ops,
                        author |-> e.client_id]},
       subs |-> srv.subs]

(***************************************************************************)
(* State.                                                                  *)
(***************************************************************************)
VARIABLES
  dBefore,   \* lib/ot run: the text before
  dAfter,    \* lib/ot run: the text after
  dOps,      \* lib/ot run: diffToOps(dBefore, dAfter)
  dOut,      \* lib/ot run: applyOps(dBefore, dOps)
  dPc,       \* lib/ot run: "start", "diffed" or "applied"
  authState, \* per client: "unknown" or "authorized"
  content,   \* per client: content / contentRef.current, the local text
  revRef,    \* per client: rev / revRef.current
  queueRef,  \* per client: queueRef.current, the PendingQueue
  storage,   \* per client: localStorage[storageKeyQueue]
  nextId,    \* per client: op ids drawn so far (uuidv4)
  reconcile, \* per client: snapshot responses reconcileWithServer awaits
  joinFetch, \* per client: snapshot response handleJoin awaits
  sock,      \* per client: "open" or "closed"
  c2s,       \* per client: frames sent on the socket, not yet read by the server
  s2c,       \* per client: frames the server sent, not yet handled
  server,    \* the document: [text, rev, log, accepted, subs]
  envSteps,  \* socket closes and reconcile interval ticks so far
  edits,     \* change events of the textareas so far
  wClientId,      \* CompatWebSocket.clientId (0 before the join)
  wFrames,        \* frames of the server the socket has received, in order
  wDispatched,    \* messages dispatchCompat handed to the editor, in order
  presence,       \* presenceRef.current of the editor behind the socket
  wSent,          \* frames super.send put on the wire, in order
  now,            \* Date.now()
  lastMsgAtRef,   \* lastMsgAtRef.current
  readyState,     \* socket.readyState of the socket useHeartbeat watches
  cancelled,      \* the cancelled flag of the heartbeat effect
  pings,          \* ping frames sent on the socket
  wsReadyRef,     \* wsReadyRef.current
  timerAt,        \* Date.now() at the next run of the heartbeat interval
  storedPassword, \* per client: localStorage[passwordKey(slug)], <<>> if absent
  activePassword, \* per client: activePassword
  loading,        \* per client: the load effect has yet to run its fetch
  serverPassword, \* the document's password at the server, "" if none
  pwRequests,     \* POST /api/password requests made so far
  passwordStatus, \* passwordStatus of the page
  channel,        \* one effect instance of useRealtimeChannel and its socket
  loads           \* per client: the snapshot fetches of load effects in flight

diffVars == <<dBefore, dAfter, dOps, dOut, dPc>>

clientVars ==
  <<authState, content, revRef, queueRef, storage, nextId, reconcile,
    joinFetch, sock>>

netVars == <<c2s, s2c, server>>

boundVars == <<envSteps, edits>>

protoVars == <<clientVars, netVars, boundVars>>

wireVars ==
  <<wClientId, wFrames, wDispatched, presence, wSent>>

hbVars ==
  <<now, lastMsgAtRef, readyState, cancelled, pings, wsReadyRef, timerAt>>

pwVars ==
  <<storedPassword, activePassword, loading, serverPassword, pwRequests,
    passwordStatus>>

sideVars == <<wireVars, hbVars, pwVars, channel, loads>>

vars == <<diffVars, protoVars, sideVars>>

\* No channel effect and no load effect under observation.
HookIdle ==
  /\ channel = [closed |-> TRUE, ws |-> "CLOSED", retryRef |-> 0,
                timerRef |-> 0, delay |-> 0, created |-> 0, closes |-> 0]
  /\ loads = <<<<>>, <<>>>>

\* No CompatWebSocket under observation.
WireIdle ==
  /\ wClientId = 0
  /\ wFrames = <<>>
  /\ wDispatched = <<>>
  /\ presence = {}
  /\ wSent = <<>>

\* No heartbeat under observation.
HeartbeatIdle ==
  /\ now = 0
  /\ lastMsgAtRef = 0
  /\ readyState = "CLOSED"
  /\ cancelled = FALSE
  /\ pings = 0
  /\ wsReadyRef = FALSE
  /\ timerAt = 0

\* A document without password.
PasswordIdle ==
  /\ storedPassword = [c \in Clients |-> <<>>]
  /\ activePassword = [c \in Clients |-> ""]
  /\ loading = [c \in Clients |-> FALSE]
  /\ serverPassword = ""
  /\ pwRequests = 0
  /\ passwordStatus = "none"

\* The value of a localStorage key that was never set.
NoValue == [latestAck |-> 0 - 1, items |-> <<>>]

\* The document with text t at rev 1, written by an earlier author 0.
DocumentOf(t) ==
  [text |-> t,
   rev |-> 1,
   log |-> <<[rev |-> 1, op |-> InsertOp(0, t), author |-> 0,
              op_id |-> <<0, 1>>]>>,
   accepted |-> {},
   subs |-> {}]

\* The document when the sessions start: U+1F600 "a".
InitialDocument == DocumentOf(<<128512, 97>>)

\* A document inside the BMP: "ba".
BmpDocument == DocumentOf(<<98, 97>>)

\* Both pages have loaded the document doc and joined: the load effect took
\* the snapshot (content, rev, setLatestServerSeq) and made the socket,
\* handleOpen sent the join, the join snapshot was taken and the first
\* reconcileWithServer found no drift.  The queue key was never written.
ProtoInitOn(doc) ==
  /\ authState = [c \in Clients |-> "authorized"]
  /\ content = [c \in Clients |-> doc.text]
  /\ revRef = [c \in Clients |-> doc.rev]
  /\ queueRef = [c \in Clients |->
                   setLatestServerSeq(NewPendingQueue, doc.rev)]
  /\ storage = [c \in Clients |-> NoValue]
  /\ nextId = [c \in Clients |-> 0]
  /\ reconcile = [c \in Clients |-> <<>>]
  /\ joinFetch = [c \in Clients |-> NoFetch]
  /\ sock = [c \in Clients |-> "open"]
  /\ c2s = [c \in Clients |-> <<>>]
  /\ s2c = [c \in Clients |-> <<>>]
  /\ server = [doc EXCEPT !.subs = Clients]
  /\ envSteps = 0
  /\ edits = 0

ProtoInit == ProtoInitOn(InitialDocument)

(***************************************************************************)
(* The pure functions of lib/ot on every pair of bounded texts.            *)
(***************************************************************************)
DiffInit ==
  /\ dBefore \in TextsUpTo(MaxDiffLen)
  /\ dAfter \in TextsUpTo(MaxDiffLen)
  /\ dOps = <<>>
  /\ dOut = <<>>
  /\ dPc = "start"
  /\ ProtoInit
  /\ WireIdle /\ HeartbeatIdle /\ PasswordIdle /\ HookIdle

DiffStep ==
  /\ dPc = "start"
  /\ dOps' = diffToOps(dBefore, dAfter)
  /\ dPc' = "diffed"
  /\ UNCHANGED <<dBefore, dAfter, dOut, protoVars, sideVars>>

ApplyStep ==
  /\ dPc = "diffed"
  /\ dOut' = applyOps(dBefore, dOps)
  /\ dPc' = "applied"
  /\ UNCHANGED <<dBefore, dAfter, dOps, protoVars, sideVars>>

DiffNext == DiffStep \/ ApplyStep

SpecDiff == DiffInit /\ [][DiffNext]_vars

(***************************************************************************)
(* applyOps on every bounded text and every single op with pos, len >= 0,  *)
(* whether or not the op fits the text.                                    *)
(***************************************************************************)
AnyOp ==
  {DeleteOp(pos, len) : pos \in 0..MaxPos, len \in 0..MaxPos}
  \cup {InsertOp(pos, t) : pos \in 0..MaxPos, t \in TextsUpTo(1)}

ApplyInit ==
  /\ dBefore \in TextsUpTo(MaxDiffLen)
  /\ dAfter = <<>>
  /\ \E op \in AnyOp : dOps = <<op>>
  /\ dOut = <<>>
  /\ dPc = "diffed"
  /\ ProtoInit
  /\ WireIdle /\ HeartbeatIdle /\ PasswordIdle /\ HookIdle

SpecApply == ApplyInit /\ [][ApplyStep]_vars

(***************************************************************************)
(* The editor page (EditPageClient).                                       *)
(***************************************************************************)
\* persistQueue(): safeSetItem(storageKeyQueue, JSON.stringify(queue)).
persistQueue(pq) == toJSON(pq)

\* fetchSnapshot(slug): GET /api/snapshot is answered from the document as
\* it is when the request is made; the response reaches the page later.
fetchSnapshot == [st |-> "resp", rev |-> server.rev, content |-> server.text]

\* ws.send(frames) on the client's current socket: the frames go out on an
\* OPEN socket; a CLOSED socket drops them.
wsSend(c, frames) == IF sock[c] = "open" THEN c2s[c] \o frames ELSE c2s[c]

\* What one keystroke, deletion or overwrite makes of the textarea.
UserInputs(t) ==
  {Slice(t, 0, p) \o <<ch>> \o SliceFrom(t, p) :
     p \in (IF Len(t) < MaxLen THEN 0..Len(t) ELSE {}), ch \in Typed}
  \cup {Slice(t, 0, p - 1) \o SliceFrom(t, p) : p \in 1..Len(t)}
  \cup {[t EXCEPT ![p] = ch] : p \in 1..Len(t), ch \in Typed}

\* The edit frames resendQueue sends on an open socket.
resendQueue(c, pq) ==
  [k \in 1..Len(flush(pq)) |-> EditFrame(c, flush(pq)[k])]

\* handleOpen on the socket connect() makes after a close.  The join goes out first as the hello frame, which the
\* server reads before any later frame of the socket: the session is
\* subscribed from here on.  handleJoin starts its snapshot fetch; then
\* setLatestServerSeq, resendQueue, and reconcileWithServer when the queue
\* is empty.
HandleOpen(c) ==
  /\ sock[c] = "closed"
  /\ LET pq == setLatestServerSeq(queueRef[c], revRef[c])
     IN  /\ isEmpty(pq) => Len(reconcile[c]) < MaxInflight
         /\ queueRef' = [queueRef EXCEPT ![c] = pq]
         /\ c2s' = [c2s EXCEPT ![c] = resendQueue(c, pq)]
         /\ reconcile' = [reconcile EXCEPT ![c] =
                            IF isEmpty(pq) THEN Append(@, fetchSnapshot) ELSE @]
  /\ sock' = [sock EXCEPT ![c] = "open"]
  /\ server' = [server EXCEPT !.subs = @ \cup {c}]
  /\ joinFetch' = [joinFetch EXCEPT ![c] = fetchSnapshot]
  /\ UNCHANGED <<authState, content, revRef, storage, nextId, s2c, boundVars,
                 diffVars, sideVars>>

\* The socket closes (network, server or heartbeat): frames in flight in both
\* directions are lost and the server drops the session.
Close(c) ==
  /\ sock[c] = "open"
  /\ envSteps < MaxEnvSteps
  /\ envSteps' = envSteps + 1
  /\ sock' = [sock EXCEPT ![c] = "closed"]
  /\ c2s' = [c2s EXCEPT ![c] = <<>>]
  /\ s2c' = [s2c EXCEPT ![c] = <<>>]
  /\ server' = [server EXCEPT !.subs = @ \ {c}]
  /\ UNCHANGED <<authState, content, revRef, queueRef, storage, nextId,
                 reconcile, joinFetch, edits, diffVars, sideVars>>

\* onChange of the textarea with the new value next.
OnChange(c, next) ==
  /\ authState[c] = "authorized"
  /\ edits < MaxEdits
  /\ edits' = edits + 1
  /\ LET ops == diffToOps(content[c], next)
         op_id == <<c, nextId[c] + 1>>
         base_rev == latestServerSeq(queueRef[c])
         pending == [op_id |-> op_id, base_rev |-> base_rev, ops |-> ops]
     IN  /\ content' = [content EXCEPT ![c] = next]
         /\ IF Len(ops) = 0
              THEN UNCHANGED <<queueRef, storage, nextId, c2s>>
              ELSE /\ nextId[c] < MaxOpIds
                   /\ nextId' = [nextId EXCEPT ![c] = @ + 1]
                   /\ queueRef' = [queueRef EXCEPT ![c] = enqueue(@, pending)]
                   /\ storage' = [storage EXCEPT ![c] =
                                    persistQueue(enqueue(queueRef[c], pending))]
                   /\ c2s' = [c2s EXCEPT ![c] =
                                wsSend(c, <<EditFrame(c, pending)>>)]
  /\ UNCHANGED <<authState, revRef, reconcile, joinFetch, sock, s2c, server,
                 envSteps, diffVars, sideVars>>

\* The 10 s interval: reconcileWithServer returns at once unless the queue
\* is empty, and otherwise starts its snapshot fetch.
ReconcileTick(c) ==
  /\ authState[c] = "authorized"
  /\ envSteps < MaxEnvSteps
  /\ isEmpty(queueRef[c])
  /\ Len(reconcile[c]) < MaxInflight
  /\ envSteps' = envSteps + 1
  /\ reconcile' = [reconcile EXCEPT ![c] = Append(@, fetchSnapshot)]
  /\ UNCHANGED <<authState, content, revRef, queueRef, storage, nextId,
                 joinFetch, sock, netVars, edits, diffVars, sideVars>>

\* reconcileWithServer after its await, on the response to its k-th fetch.
ReconcileDone(c, k) ==
  /\ k \in 1..Len(reconcile[c])
  /\ LET snap == reconcile[c][k]
         pq == setLatestServerSeq(queueRef[c], snap.rev)
         ops == IF snap.content # content[c]
                  THEN diffToOps(snap.content, content[c]) ELSE <<>>
         pending == [op_id |-> <<c, nextId[c] + 1>>, base_rev |-> snap.rev,
                     ops |-> ops]
         rest == [j \in 1..(Len(reconcile[c]) - 1) |->
                    IF j < k THEN reconcile[c][j] ELSE reconcile[c][j + 1]]
     IN  /\ revRef' = [revRef EXCEPT ![c] = snap.rev]
         /\ reconcile' = [reconcile EXCEPT ![c] = rest]
         /\ IF Len(ops) > 0
              THEN /\ nextId[c] < MaxOpIds
                   /\ nextId' = [nextId EXCEPT ![c] = @ + 1]
                   /\ queueRef' = [queueRef EXCEPT ![c] = enqueue(pq, pending)]
                   /\ storage' = [storage EXCEPT ![c] =
                                    persistQueue(enqueue(pq, pending))]
                   /\ c2s' = [c2s EXCEPT ![c] =
                                wsSend(c, <<EditFrame(c, pending)>>)]
              ELSE /\ queueRef' = [queueRef EXCEPT ![c] = pq]
                   /\ UNCHANGED <<storage, nextId, c2s>>
  /\ UNCHANGED <<authState, content, joinFetch, sock, s2c, server, boundVars,
                 diffVars, sideVars>>

\* handleJoin dispatches the snapshot message and handleMessage takes it.
\* The listeners stay on a closed socket until connect() replaces it.
HandleSnapshot(c) ==
  /\ joinFetch[c].st = "resp"
  /\ content' = [content EXCEPT ![c] = joinFetch[c].content]
  /\ revRef' = [revRef EXCEPT ![c] = joinFetch[c].rev]
  /\ queueRef' = [queueRef EXCEPT ![c] =
                    setLatestServerSeq(@, joinFetch[c].rev)]
  /\ joinFetch' = [joinFetch EXCEPT ![c] = NoFetch]
  /\ UNCHANGED <<authState, storage, nextId, reconcile, sock, netVars,
                 boundVars, diffVars, sideVars>>

\* A handler of the own applied frame that also applies its ops to the text.
HandleAckApplies(c) ==
  /\ sock[c] = "open"
  /\ s2c[c] # <<>>
  /\ Head(s2c[c]).type = "applied"
  /\ Head(s2c[c]).client_id = c
  /\ LET m == Head(s2c[c])
         pq == ack(queueRef[c], m.op_id, m.rev)
     IN  /\ isEmpty(pq) => Len(reconcile[c]) < MaxInflight
         /\ content' = [content EXCEPT ![c] = applyOps(@, m.ops)]
         /\ queueRef' = [queueRef EXCEPT ![c] = pq]
         /\ storage' = [storage EXCEPT ![c] = persistQueue(pq)]
         /\ revRef' = [revRef EXCEPT ![c] = m.rev]
         /\ reconcile' = [reconcile EXCEPT ![c] =
                            IF isEmpty(pq) THEN Append(@, fetchSnapshot) ELSE @]
  /\ s2c' = [s2c EXCEPT ![c] = Tail(@)]
  /\ UNCHANGED <<authState, nextId, joinFetch, sock, c2s, server,
                 boundVars, diffVars, sideVars>>

\* An applied frame of the client's own edit: handleServerMessage turns it
\* into an ack, and handleMessage handles the ack.
HandleAck(c) ==
  /\ sock[c] = "open"
  /\ s2c[c] # <<>>
  /\ Head(s2c[c]).type = "applied"
  /\ Head(s2c[c]).client_id = c
  /\ LET m == Head(s2c[c])
         pq == ack(queueRef[c], m.op_id, m.rev)
     IN  /\ isEmpty(pq) => Len(reconcile[c]) < MaxInflight
         /\ queueRef' = [queueRef EXCEPT ![c] = pq]
         /\ storage' = [storage EXCEPT ![c] = persistQueue(pq)]
         /\ revRef' = [revRef EXCEPT ![c] = m.rev]
         /\ reconcile' = [reconcile EXCEPT ![c] =
                            IF isEmpty(pq) THEN Append(@, fetchSnapshot) ELSE @]
  /\ s2c' = [s2c EXCEPT ![c] = Tail(@)]
  /\ UNCHANGED <<authState, content, nextId, joinFetch, sock, c2s, server,
                 boundVars, diffVars, sideVars>>

\* A handler of remote applied frames that applies the last op only.
HandleOpBroadcastLast(c) ==
  /\ sock[c] = "open"
  /\ s2c[c] # <<>>
  /\ Head(s2c[c]).type = "applied"
  /\ Head(s2c[c]).client_id # c
  /\ LET m == Head(s2c[c])
     IN  /\ content' = [content EXCEPT ![c] =
                          IF Len(m.ops) > 0
                            THEN applyOps(@, <<m.ops[Len(m.ops)]>>) ELSE @]
         /\ IF Len(m.ops) > 0
              THEN /\ revRef' = [revRef EXCEPT ![c] = m.rev]
                   /\ queueRef' = [queueRef EXCEPT ![c] =
                                     setLatestServerSeq(@, m.rev)]
              ELSE UNCHANGED <<revRef, queueRef>>
  /\ s2c' = [s2c EXCEPT ![c] = Tail(@)]
  /\ UNCHANGED <<authState, storage, nextId, reconcile, joinFetch, sock, c2s,
                 server, boundVars, diffVars, sideVars>>

\* An applied frame of another client: one op_broadcast per op, each applied
\* to the local text.
HandleOpBroadcast(c) ==
  /\ sock[c] = "open"
  /\ s2c[c] # <<>>
  /\ Head(s2c[c]).type = "applied"
  /\ Head(s2c[c]).client_id # c
  /\ LET m == Head(s2c[c])
     IN  /\ content' = [content EXCEPT ![c] = applyOps(@, m.ops)]
         /\ IF Len(m.ops) > 0
              THEN /\ revRef' = [revRef EXCEPT ![c] = m.rev]
                   /\ queueRef' = [queueRef EXCEPT ![c] =
                                     setLatestServerSeq(@, m.rev)]
              ELSE UNCHANGED <<revRef, queueRef>>
  /\ s2c' = [s2c EXCEPT ![c] = Tail(@)]
  /\ UNCHANGED <<authState, storage, nextId, reconcile, joinFetch, sock, c2s,
                 server, boundVars, diffVars, sideVars>>

\* A frame of any other type (error): handleServerMessage and
\* handleCoeditMsg fall to their default cases.
HandleOther(c) ==
  /\ sock[c] = "open"
  /\ s2c[c] # <<>>
  /\ Head(s2c[c]).type # "applied"
  /\ s2c' = [s2c EXCEPT ![c] = Tail(@)]
  /\ UNCHANGED <<clientVars, c2s, server, boundVars, diffVars, sideVars>>

(***************************************************************************)
(* The server reads the next edit frame of a session: apply_edit, then the *)
(* applied frame to every subscriber (to the author alone for a duplicate  *)
(* op_id), or the error frame to the author.                               *)
(***************************************************************************)
ServerEdit(c) ==
  /\ c2s[c] # <<>>
  /\ LET e == Head(c2s[c]).edit
         dup == {a \in server.accepted : a.op_id = e.op_id}
     IN  IF dup # {}
           THEN LET a == CHOOSE a \in dup : TRUE
                IN  /\ s2c' = [s2c EXCEPT ![c] =
                                 Append(@, AppliedFrame(a.rev, a.ops, a.author,
                                                        a.op_id))]
                    /\ UNCHANGED server
           ELSE IF e.base_rev > server.rev
                   \/ server.rev - e.base_rev > TransformWindow
             THEN /\ s2c' = [s2c EXCEPT ![c] =
                               Append(@, ErrorFrame("base_too_old", e.op_id))]
                  /\ UNCHANGED server
             ELSE LET srv == Accept(server, e)
                      frame == AppliedFrame(srv.rev,
                                 [k \in 1..(srv.rev - server.rev) |->
                                    srv.log[server.rev + k].op],
                                 c, e.op_id)
                  IN  /\ server' = srv
                      /\ s2c' = [d \in Clients |->
                                   IF d \in server.subs
                                     THEN Append(s2c[d], frame) ELSE s2c[d]]
  /\ c2s' = [c2s EXCEPT ![c] = Tail(@)]
  /\ UNCHANGED <<clientVars, boundVars, diffVars, sideVars>>

DiffIdle ==
  /\ dBefore = <<>>
  /\ dAfter = <<>>
  /\ dOps = <<>>
  /\ dOut = <<>>
  /\ dPc = "start"

Init == DiffIdle /\ ProtoInit /\ WireIdle /\ HeartbeatIdle /\ PasswordIdle /\ HookIdle

InitBmp ==
  /\ DiffIdle
  /\ ProtoInitOn(BmpDocument)
  /\ WireIdle /\ HeartbeatIdle /\ PasswordIdle /\ HookIdle

Next ==
  \/ \E c \in Clients : HandleOpen(c)
  \/ \E c \in Clients : Close(c)
  \/ \E c \in Clients : \E next \in UserInputs(content[c]) \cup {content[c]} :
       OnChange(c, next)
  \/ \E c \in Clients : ReconcileTick(c)
  \/ \E c \in Clients : \E k \in 1..MaxInflight + 1 : ReconcileDone(c, k)
  \/ \E c \in Clients : HandleSnapshot(c)
  \/ \E c \in Clients : HandleAck(c)
  \/ \E c \in Clients : HandleOpBroadcast(c)
  \/ \E c \in Clients : HandleOther(c)
  \/ \E c \in Clients : ServerEdit(c)

Spec == Init /\ [][Next]_vars

\* The same sessions on a document without characters outside the BMP.
SpecBmp == InitBmp /\ [][Next]_vars

(***************************************************************************)
(* A page whose user only reads, next to a page whose user writes.  The    *)
(* 10 s interval of the reading page may fire while an earlier fetch of    *)
(* reconcileWithServer is still awaited.                                   *)
(***************************************************************************)
Writer == 1
Reader == 2

\* Fetches of reconcileWithServer one page may have in flight at once.
MaxOverlap == 2

\* The interval fires while a fetch of reconcileWithServer is in flight: the
\* queue is empty, so a further fetch starts.
ReconcileOverlap(c) ==
  /\ authState[c] = "authorized"
  /\ isEmpty(queueRef[c])
  /\ Len(reconcile[c]) >= MaxInflight
  /\ Len(reconcile[c]) < MaxOverlap
  /\ reconcile' = [reconcile EXCEPT ![c] = Append(@, fetchSnapshot)]
  /\ UNCHANGED <<authState, content, revRef, queueRef, storage, nextId,
                 joinFetch, sock, netVars, boundVars, diffVars, sideVars>>

ReaderNext ==
  \/ \E c \in Clients : HandleOpen(c)
  \/ \E c \in Clients : Close(c)
  \/ \E next \in UserInputs(content[Writer]) : OnChange(Writer, next)
  \/ \E c \in Clients : ReconcileTick(c)
  \/ ReconcileOverlap(Reader)
  \/ \E c \in Clients : \E k \in 1..MaxOverlap : ReconcileDone(c, k)
  \/ \E c \in Clients : HandleSnapshot(c)
  \/ \E c \in Clients : HandleAck(c)
  \/ \E c \in Clients : HandleOpBroadcast(c)
  \/ \E c \in Clients : HandleOther(c)
  \/ \E c \in Clients : ServerEdit(c)

SpecReader == InitBmp /\ [][ReaderNext]_vars

(***************************************************************************)
(* One browser tab: a page session on the document, and the page session   *)
(* that a reload of the tab starts.                                        *)
(***************************************************************************)
\* clientId = useMemo(() => uuidv4(), []): every mount of the page draws a
\* new clientId, so the session after the reload has another one than the
\* session before it.
FirstSession == 1
NextSession == 2

\* PendingQueue.replace(snapshot) on a stored { latestAck, items }.
replace(snapshot) == [q |-> snapshot.items, latestAck |-> snapshot.latestAck]

\* The restore effect on the value of storageKeyQueue: replace() without an
\* argument when the key has no value.
restoreQueue(raw) == IF raw = NoValue THEN NewPendingQueue ELSE replace(raw)

\* The first session has loaded and joined; the next session is not mounted.
ReloadInit ==
  /\ DiffIdle
  /\ authState = [c \in Clients |->
                    IF c = FirstSession THEN "authorized" ELSE "unknown"]
  /\ content = [c \in Clients |->
                  IF c = FirstSession THEN BmpDocument.text ELSE <<>>]
  /\ revRef = [c \in Clients |-> IF c = FirstSession THEN BmpDocument.rev ELSE 0]
  /\ queueRef = [c \in Clients |->
                   IF c = FirstSession
                     THEN setLatestServerSeq(NewPendingQueue, BmpDocument.rev)
                     ELSE NewPendingQueue]
  /\ storage = [c \in Clients |-> NoValue]
  /\ nextId = [c \in Clients |-> 0]
  /\ reconcile = [c \in Clients |-> <<>>]
  /\ joinFetch = [c \in Clients |-> NoFetch]
  /\ sock = [c \in Clients |-> IF c = FirstSession THEN "open" ELSE "none"]
  /\ c2s = [c \in Clients |-> <<>>]
  /\ s2c = [c \in Clients |-> <<>>]
  /\ server = [BmpDocument EXCEPT !.subs = {FirstSession}]
  /\ envSteps = 0
  /\ edits = 0
  /\ WireIdle /\ HeartbeatIdle /\ PasswordIdle /\ HookIdle

\* The tab reloads.  The first session unmounts: its socket closes, its
\* frames in flight and its fetches are lost; localStorage stays.  The next
\* session mounts with its own clientId: the restore effect reads
\* storageKeyQueue and storageKeyText, both named after that clientId, the
\* load effect takes the snapshot, and connect() makes the socket.
Reload ==
  /\ authState[FirstSession] = "authorized"
  /\ authState[NextSession] = "unknown"
  /\ authState' = [authState EXCEPT ![FirstSession] = "unknown",
                                    ![NextSession] = "authorized"]
  /\ sock' = [sock EXCEPT ![FirstSession] = "none", ![NextSession] = "closed"]
  /\ c2s' = [c2s EXCEPT ![FirstSession] = <<>>]
  /\ s2c' = [s2c EXCEPT ![FirstSession] = <<>>]
  /\ server' = [server EXCEPT !.subs = @ \ {FirstSession}]
  /\ reconcile' = [reconcile EXCEPT ![FirstSession] = <<>>]
  /\ joinFetch' = [joinFetch EXCEPT ![FirstSession] = NoFetch]
  /\ queueRef' = [queueRef EXCEPT ![NextSession] =
                    setLatestServerSeq(restoreQueue(storage[NextSession]),
                                       server.rev)]
  /\ content' = [content EXCEPT ![NextSession] = server.text]
  /\ revRef' = [revRef EXCEPT ![NextSession] = server.rev]
  /\ UNCHANGED <<storage, nextId, boundVars, diffVars, sideVars>>

ReloadNext ==
  \/ Reload
  \/ \E c \in Clients : HandleOpen(c)
  \/ \E c \in Clients : Close(c)
  \/ \E c \in Clients : \E next \in UserInputs(content[c]) : OnChange(c, next)
  \/ \E c \in Clients : \E k \in 1..MaxInflight : ReconcileDone(c, k)
  \/ \E c \in Clients : HandleSnapshot(c)
  \/ \E c \in Clients : HandleAck(c)
  \/ \E c \in Clients : HandleOther(c)
  \/ \E c \in Clients : ServerEdit(c)

SpecReload == ReloadInit /\ [][ReloadNext]_vars

(***************************************************************************)
(* CompatWebSocket between one page and the server, with the listeners the *)
(* page attaches to it.                                                    *)
(***************************************************************************)
\* The clientId of the page behind the socket.
Page == 1

\* The slug of the page, and the slug of another document.
Slug == "doc"
OtherSlug == "other"

\* Messages the page hands to socket.send.
JoinMsg(clientId) == [type |-> "join", clientId |-> clientId]
PageMsg(type) == [type |-> type, slug |-> Slug]

\* The join of handleOpen aside, what the page sends on an open socket.
PageMsgs == {PageMsg(t) : t \in {"edit", "cursor", "ime", "profile", "ping"}}

\* CompatWebSocket.send(data): the frames super.send puts on the wire.
\* join goes through handleJoin, op through handleCompatOp (nothing without
\* a sessionId, which handleJoin sets together with the clientId), ping
\* through handleCompatPing, every other message as it is.
send(clientId, msg) ==
  CASE msg.type = "join" ->
         <<[type |-> "hello", slug |-> Slug, client_id |-> msg.clientId]>>
    [] msg.type = "op" ->
         IF clientId # 0 THEN <<[type |-> "edit", slug |-> Slug]>> ELSE <<>>
    [] msg.type = "ping" -> <<[type |-> "ping"]>>
    [] OTHER -> <<msg>>

\* Messages of dispatchCompat.
AckMsg(serverSeq, opId) ==
  [type |-> "ack", serverSeq |-> serverSeq, opId |-> opId]

OpBroadcastMsg(op, serverSeq, clientId) ==
  [type |-> "op_broadcast", operation |-> op, serverSeq |-> serverSeq,
   clientId |-> clientId]

\* A translation that hands the author both the ack and the ops.
handleServerMessageBoth(clientId, frame) ==
  IF frame.type = "applied"
    THEN (IF frame.client_id # 0 /\ clientId # 0 /\ frame.client_id = clientId
            THEN <<AckMsg(frame.rev, frame.op_id)>> ELSE <<>>)
         \o [k \in 1..Len(frame.ops) |->
               OpBroadcastMsg(frame.ops[k], frame.rev, frame.client_id)]
    ELSE <<>>

\* handleServerMessage: the messages it hands to dispatchCompat, in order.
\* client_id 0 is a frame without client_id.
handleServerMessage(clientId, frame) ==
  IF frame.type = "applied"
    THEN IF frame.client_id # 0 /\ clientId # 0 /\ frame.client_id = clientId
           THEN <<AckMsg(frame.rev, frame.op_id)>>
           ELSE [k \in 1..Len(frame.ops) |->
                   OpBroadcastMsg(frame.ops[k], frame.rev, frame.client_id)]
    ELSE <<>>

\* A dispatch that puts the message before the ones dispatched earlier.
dispatchCompatFirst(delivered, msg) == <<msg>> \o delivered

\* dispatchCompat: the listeners of messageTarget run on msg, after the
\* messages dispatched before it.
dispatchCompat(delivered, msg) == Append(delivered, msg)

RECURSIVE dispatchAll(_, _)
dispatchAll(delivered, msgs) ==
  IF msgs = <<>> THEN delivered
  ELSE dispatchAll(dispatchCompat(delivered, Head(msgs)), Tail(msgs))

\* An entry of the presence map.
PresenceEntry(clientId, cursor, ime) ==
  [client_id |-> clientId, cursor |-> cursor, ime |-> ime]

\* next[clientId] ?? { client_id: clientId }
existing(map, clientId) ==
  IF \E e \in map : e.client_id = clientId
    THEN CHOOSE e \in map : e.client_id = clientId
    ELSE PresenceEntry(clientId, 0, 0)

\* next[entry.client_id] = entry
put(map, entry) ==
  {e \in map : e.client_id # entry.client_id} \cup {entry}

\* { ...existing, ...updatedState }: the fields updatedState has replace those
\* of existing (0 stands for a field the entry does not have).
merge(entry, updatedState) ==
  [client_id |-> updatedState.client_id,
   cursor |-> IF updatedState.cursor # 0 THEN updatedState.cursor
              ELSE entry.cursor,
   ime |-> IF updatedState.ime # 0 THEN updatedState.ime ELSE entry.ime]

\* for (const added of diff.added) next[added.client_id] = added
RECURSIVE putAll(_, _)
putAll(map, added) ==
  IF added = <<>> THEN map
  ELSE putAll(put(map, Head(added)), Tail(added))

\* for (const updatedState of diff.updated) next[id] = merge of them
RECURSIVE mergeAll(_, _)
mergeAll(map, updated) ==
  IF updated = <<>> THEN map
  ELSE mergeAll(put(map, merge(existing(map, Head(updated).client_id),
                               Head(updated))),
                Tail(updated))

\* for (const removed of diff.removed) delete next[removed]
deleteAll(map, removed) ==
  {e \in map : \A k \in 1..Len(removed) : removed[k] # e.client_id}

\* A presence_diff that deletes first and adds and updates afterwards.
presenceDiffDeletesFirst(map, diff) ==
  mergeAll(putAll(deleteAll(map, diff.removed), diff.added), diff.updated)

\* The presence_diff case of handleCoeditMsg: added, updated, removed, in
\* this order.
presenceDiff(map, diff) ==
  deleteAll(mergeAll(putAll(map, diff.added), diff.updated), diff.removed)

\* A listener whose default case empties the presence map.
handleCoeditMsgResets(map, frame) ==
  CASE frame.type = "cursor" ->
         IF frame.slug # Slug THEN map
         ELSE put(map, [existing(map, frame.client_id)
                          EXCEPT !.cursor = frame.cursor])
    [] frame.type = "ime" ->
         IF frame.slug # Slug THEN map
         ELSE put(map, [existing(map, frame.client_id)
                          EXCEPT !.ime = frame.ime])
    [] frame.type = "presence_snapshot" ->
         IF frame.slug # Slug THEN map
         ELSE put(frame.clients, existing(frame.clients, Page))
    [] frame.type = "presence_diff" ->
         IF frame.slug # Slug THEN map
         ELSE presenceDiff(map, frame)
    [] OTHER -> {}

\* handleCoeditMsg: the presence map after the frame.  A cursor or ime frame
\* updates the entry of its client, a presence_snapshot replaces the map and
\* adds the page's own entry, a presence_diff adds, updates and removes the
\* clients it names; any other type leaves the map.
handleCoeditMsg(map, frame) ==
  CASE frame.type = "cursor" ->
         IF frame.slug # Slug THEN map
         ELSE put(map, [existing(map, frame.client_id)
                          EXCEPT !.cursor = frame.cursor])
    [] frame.type = "ime" ->
         IF frame.slug # Slug THEN map
         ELSE put(map, [existing(map, frame.client_id)
                          EXCEPT !.ime = frame.ime])
    [] frame.type = "presence_snapshot" ->
         IF frame.slug # Slug THEN map
         ELSE put(frame.clients, existing(frame.clients, Page))
    [] frame.type = "presence_diff" ->
         IF frame.slug # Slug THEN map
         ELSE presenceDiff(map, frame)
    [] OTHER -> map

\* The state handleMessage works on.
EditorOf(c) ==
  [content |-> content[c], rev |-> revRef[c], queue |-> queueRef[c],
   storage |-> storage[c], reconcile |-> reconcile[c]]

\* handleMessage on one message of dispatchCompat.
handleMessage(ed, msg) ==
  CASE msg.type = "op_broadcast" ->
         [ed EXCEPT !.content = applyOps(@, <<msg.operation>>),
                    !.rev = msg.serverSeq,
                    !.queue = setLatestServerSeq(@, msg.serverSeq)]
    [] msg.type = "ack" ->
         LET pq == ack(ed.queue, msg.opId, msg.serverSeq)
         IN  [ed EXCEPT !.queue = pq,
                        !.storage = persistQueue(pq),
                        !.rev = msg.serverSeq,
                        !.reconcile = IF isEmpty(pq)
                                        THEN Append(@, fetchSnapshot) ELSE @]
    [] OTHER -> ed

RECURSIVE handleMessages(_, _)
handleMessages(ed, msgs) ==
  IF msgs = <<>> THEN ed
  ELSE handleMessages(handleMessage(ed, Head(msgs)), Tail(msgs))

\* Frames and received applied frames of one connection, frames on the wire.
MaxFrames == 3
MaxWire == 3

\* The ops of the applied frames the server sends.
FrameOps == {<<DeleteOp(0, 1), InsertOp(0, <<97>>)>>}

\* The frames the server sends next when rev is the revision of its next
\* applied frame: applied frames of the page itself, of another client and
\* without client_id, an error, a pong, and presence frames.
ServerFrames(rev) ==
  {AppliedFrame(rev, ops, author, IF author = 0 THEN NoId ELSE <<author, 1>>) :
     ops \in FrameOps, author \in {0} \cup Clients}
  \cup {ErrorFrame("base_too_old", <<Page, 1>>), [type |-> "pong"]}
  \cup {[type |-> "cursor", slug |-> sl, client_id |-> 2, cursor |-> 1] :
          sl \in {Slug, OtherSlug}}
  \cup {[type |-> "presence_snapshot", slug |-> Slug,
         clients |-> {PresenceEntry(2, 0, 0)}],
        [type |-> "presence_diff", slug |-> Slug, added |-> <<>>,
         updated |-> <<>>, removed |-> <<2>>]}

WireInit ==
  /\ DiffIdle
  /\ authState = [c \in Clients |-> "authorized"]
  /\ content = [c \in Clients |-> InitialDocument.text]
  /\ revRef = [c \in Clients |-> InitialDocument.rev]
  /\ queueRef = [c \in Clients |->
                   setLatestServerSeq(NewPendingQueue, InitialDocument.rev)]
  /\ storage = [c \in Clients |-> NoValue]
  /\ nextId = [c \in Clients |-> 0]
  /\ reconcile = [c \in Clients |-> <<>>]
  /\ joinFetch = [c \in Clients |-> NoFetch]
  /\ sock = [c \in Clients |-> "closed"]
  /\ c2s = [c \in Clients |-> <<>>]
  /\ s2c = [c \in Clients |-> <<>>]
  /\ server = InitialDocument
  /\ envSteps = 0
  /\ edits = 0
  /\ WireIdle /\ HeartbeatIdle /\ PasswordIdle /\ HookIdle

\* The open event of the page's socket, handleOpen: the join, which
\* handleJoin puts on the wire and follows with its snapshot fetch;
\* setLatestServerSeq; nothing to resend and reconcileWithServer with the
\* empty queue; sendProfileUpdate; and publishCursorImmediate, which sends
\* the cursor when the page shows its textarea.
WireOpen(textarea) ==
  /\ sock[Page] = "closed"
  /\ sock' = [sock EXCEPT ![Page] = "open"]
  /\ wClientId' = Page
  /\ wSent' = send(wClientId, JoinMsg(Page))
                \o send(Page, PageMsg("profile"))
                \o (IF textarea THEN send(Page, PageMsg("cursor")) ELSE <<>>)
  /\ presence' = put(presence,
                     [existing(presence, Page)
                        EXCEPT !.cursor = IF textarea THEN 1 ELSE @])
  /\ wFrames' = <<>>
  /\ wDispatched' = <<>>
  /\ joinFetch' = [joinFetch EXCEPT ![Page] = fetchSnapshot]
  /\ queueRef' = [queueRef EXCEPT ![Page] = setLatestServerSeq(@, revRef[Page])]
  /\ reconcile' = [reconcile EXCEPT ![Page] =
                     IF isEmpty(queueRef[Page]) THEN <<fetchSnapshot>> ELSE @]
  /\ lastMsgAtRef' = now
  /\ wsReadyRef' = TRUE
  /\ UNCHANGED <<authState, content, revRef, storage, nextId, netVars,
                 boundVars, diffVars, channel, loads, now, readyState, cancelled, pings,
                 timerAt, pwVars>>

\* CompatWebSocket.send(JSON.stringify(msg)), called by the page on its open
\* socket; sendProfileUpdate returns unless wsReadyRef is set.
WireSend(msg) ==
  /\ sock[Page] = "open"
  /\ msg.type = "profile" => wsReadyRef
  /\ Len(wSent) < MaxWire
  /\ wSent' = wSent \o send(wClientId, msg)
  /\ UNCHANGED <<protoVars, diffVars, channel, loads, wClientId, wFrames, wDispatched,
                 presence, hbVars, pwVars>>

\* A message event of the socket: handleServerMessage hands the frame to
\* handleCoeditMsg through dispatchNative and its translation to
\* handleMessage through dispatchCompat, all within the event.  An applied
\* frame is the document's next revision, made of its ops.
WireReceive(frame) ==
  /\ sock[Page] = "open"
  /\ Len(wFrames) < MaxFrames
  /\ server' = IF frame.type = "applied"
                 THEN [server EXCEPT !.rev = frame.rev,
                                     !.text = applyOps(@, frame.ops)]
                 ELSE server
  /\ LET msgs == handleServerMessage(wClientId, frame)
         ed == handleMessages(EditorOf(Page), msgs)
     IN  /\ wFrames' = Append(wFrames, frame)
         /\ wDispatched' = dispatchAll(wDispatched, msgs)
         /\ presence' = handleCoeditMsg(presence, frame)
         /\ content' = [content EXCEPT ![Page] = ed.content]
         /\ revRef' = [revRef EXCEPT ![Page] = ed.rev]
         /\ queueRef' = [queueRef EXCEPT ![Page] = ed.queue]
         /\ storage' = [storage EXCEPT ![Page] = ed.storage]
         /\ reconcile' = [reconcile EXCEPT ![Page] = ed.reconcile]
  /\ lastMsgAtRef' = now
  /\ UNCHANGED <<authState, nextId, joinFetch, sock, c2s, s2c, boundVars,
                 diffVars, channel, loads, wClientId, wSent, now, readyState, cancelled,
                 pings, wsReadyRef, timerAt, pwVars>>

\* The close event of the page's socket, handleClose; connect() makes a new
\* CompatWebSocket, which has no clientId until its join.
WireClose ==
  /\ sock[Page] = "open"
  /\ envSteps < MaxEnvSteps
  /\ envSteps' = envSteps + 1
  /\ sock' = [sock EXCEPT ![Page] = "closed"]
  /\ wClientId' = 0
  /\ wsReadyRef' = FALSE
  /\ UNCHANGED <<authState, content, revRef, queueRef, storage, nextId,
                 reconcile, joinFetch, netVars, edits, diffVars, channel, loads, wFrames,
                 wDispatched, presence, wSent, now, lastMsgAtRef, readyState,
                 cancelled, pings, timerAt, pwVars>>

WireNext ==
  \/ \E textarea \in BOOLEAN : WireOpen(textarea)
  \/ \E msg \in PageMsgs : WireSend(msg)
  \/ \E frame \in ServerFrames(server.rev + 1) : WireReceive(frame)
  \/ HandleSnapshot(Page)
  \/ WireClose

SpecWire == WireInit /\ [][WireNext]_vars

(***************************************************************************)
(* The same socket when its open event may come before the page's effect   *)
(* has attached handleOpen to it; the server answers pings.                *)
(***************************************************************************)
\* connect() makes the socket and hands it to the page with setSocket; the
\* page attaches handleOpen in an effect of a later render.  The open event
\* fires before that effect has run: no listener of the page hears it, the
\* socket is open, wsRef holds it after the effects, and no join was sent.
WireOpenUnheard ==
  /\ sock[Page] = "closed"
  /\ sock' = [sock EXCEPT ![Page] = "open"]
  /\ wClientId' = 0
  /\ wSent' = <<>>
  /\ wFrames' = <<>>
  /\ wDispatched' = <<>>
  /\ wsReadyRef' = FALSE
  /\ UNCHANGED <<authState, content, revRef, queueRef, storage, nextId,
                 reconcile, joinFetch, netVars, boundVars, diffVars, channel, loads, presence,
                 now, lastMsgAtRef, readyState, cancelled, pings, timerAt,
                 pwVars>>

ConnectNext ==
  \/ \E textarea \in BOOLEAN : WireOpen(textarea)
  \/ WireOpenUnheard
  \/ \E msg \in PageMsgs : WireSend(msg)
  \/ WireReceive([type |-> "pong"])
  \/ HandleSnapshot(Page)
  \/ WireClose

SpecConnect == WireInit /\ [][ConnectNext]_vars

(***************************************************************************)
(* The same socket when the server sends presence frames only.             *)
(***************************************************************************)
\* The presence, cursor and ime frames of the server about client 2, for
\* the slug of the page and for another slug; the lists of a presence_diff
\* may name the same client.
PresenceFrames ==
  {[type |-> "presence_diff", slug |-> Slug, added |-> added,
    updated |-> updated, removed |-> removed] :
     added \in {<<>>, <<PresenceEntry(2, 1, 0)>>},
     updated \in {<<>>, <<PresenceEntry(2, 0, 1)>>, <<PresenceEntry(2, 2, 0)>>},
     removed \in {<<>>, <<2>>}}
  \cup {[type |-> "presence_diff", slug |-> OtherSlug,
         added |-> <<PresenceEntry(2, 1, 0)>>, updated |-> <<>>,
         removed |-> <<Page>>]}
  \cup {[type |-> "presence_snapshot", slug |-> sl,
         clients |-> {PresenceEntry(2, 0, 0)}] : sl \in {Slug, OtherSlug}}
  \cup {[type |-> "cursor", slug |-> sl, client_id |-> 2, cursor |-> 1] :
          sl \in {Slug, OtherSlug}}
  \cup {[type |-> "ime", slug |-> sl, client_id |-> 2, ime |-> 1] :
          sl \in {Slug, OtherSlug}}

PresenceNext ==
  \/ \E textarea \in BOOLEAN : WireOpen(textarea)
  \/ \E frame \in PresenceFrames : WireReceive(frame)
  \/ WireClose

SpecPresence == WireInit /\ [][PresenceNext]_vars

(***************************************************************************)
(* One effect instance of useRealtimeChannel with a session: its sockets,  *)
(* the retry counter and the reconnect timer.                              *)
(***************************************************************************)
\* Sockets one effect instance makes.
MaxSockets == 10

\* A delay without the cap of 10 s.
backoffUncapped(retry) == 500 * 2 ^ retry

\* const delay = Math.min(10_000, 500 * 2 ** retry)
backoff(retry) == Min(10000, 500 * 2 ^ retry)

\* connect(): nothing once the effect is cleaned up, else a new socket.
connect(ch) ==
  IF ch.closed THEN [ch EXCEPT !.timerRef = 0]
  ELSE [ch EXCEPT !.ws = "CONNECTING", !.created = @ + 1, !.timerRef = 0]

\* A close listener that does not look at the closed flag.
closeListenerAlways(ch) ==
  LET retry == Min(8, ch.retryRef + 1)
  IN  [ch EXCEPT !.retryRef = retry, !.delay = backoff(retry),
                 !.timerRef = backoff(retry)]

\* A close listener that schedules nothing once the counter is at its cap.
closeListenerGivesUp(ch) ==
  IF ch.closed \/ ch.retryRef = 8 THEN ch
  ELSE LET retry == Min(8, ch.retryRef + 1)
       IN  [ch EXCEPT !.retryRef = retry, !.delay = backoff(retry),
                      !.timerRef = backoff(retry)]

\* The close listener of connect(): nothing once the effect is cleaned up;
\* else the counter goes up to at most 8 and setTimeout(connect, delay)
\* replaces the timer.
closeListener(ch) ==
  IF ch.closed THEN ch
  ELSE LET retry == Min(8, ch.retryRef + 1)
       IN  [ch EXCEPT !.retryRef = retry, !.delay = backoff(retry),
                      !.timerRef = backoff(retry)]

\* The effect has run with a sessionId: connect() made the first socket.
ChannelInit ==
  /\ DiffIdle /\ ProtoInit /\ WireIdle /\ HeartbeatIdle /\ PasswordIdle
  /\ loads = <<<<>>, <<>>>>
  /\ channel = [closed |-> FALSE, ws |-> "CONNECTING", retryRef |-> 0,
                timerRef |-> 0, delay |-> 0, created |-> 1, closes |-> 0]

\* The open event: retryRef.current = 0.
ChannelOpen ==
  /\ channel.ws = "CONNECTING"
  /\ channel' = [channel EXCEPT !.ws = "OPEN", !.retryRef = 0, !.closes = 0]
  /\ UNCHANGED <<diffVars, protoVars, wireVars, hbVars, pwVars, loads>>

\* An error event: the error listeners close a CONNECTING or OPEN socket.
ChannelError ==
  /\ channel.ws \in {"CONNECTING", "OPEN"}
  /\ ~channel.closed
  /\ channel.created < MaxSockets
  /\ channel' = [channel EXCEPT !.ws = "CLOSING"]
  /\ UNCHANGED <<diffVars, protoVars, wireVars, hbVars, pwVars, loads>>

\* The interval of useHeartbeat finds the OPEN socket stale, or its ping
\* throws: cancelled = true, socket.close().
ChannelHeartbeatTimeout ==
  /\ channel.ws = "OPEN"
  /\ ~cancelled
  /\ ~channel.closed
  /\ channel.created < MaxSockets
  /\ cancelled' = TRUE
  /\ channel' = [channel EXCEPT !.ws = "CLOSING"]
  /\ UNCHANGED <<diffVars, protoVars, wireVars, now, lastMsgAtRef, readyState,
                 pings, wsReadyRef, timerAt, pwVars, loads>>

\* The close event of a socket the network or the server closed.
ChannelDrop ==
  /\ channel.ws \in {"CONNECTING", "OPEN"}
  /\ ~channel.closed
  /\ channel.created < MaxSockets
  /\ channel' = [closeListener(channel) EXCEPT !.ws = "CLOSED",
                                               !.closes = @ + 1]
  /\ UNCHANGED <<diffVars, protoVars, wireVars, hbVars, pwVars, loads>>

\* The close event of a socket the client closed.
ChannelClosed ==
  /\ channel.ws = "CLOSING"
  /\ channel' = [closeListener(channel) EXCEPT
                   !.ws = "CLOSED",
                   !.closes = IF channel.closed THEN @ ELSE @ + 1]
  /\ UNCHANGED <<diffVars, protoVars, wireVars, hbVars, pwVars, loads>>

\* The reconnect timer fires: connect(). setSocket(next) runs the heartbeat
\* effect again, with a cancelled flag of its own.
ChannelTimer ==
  /\ channel.timerRef # 0
  /\ channel' = connect(channel)
  /\ cancelled' = IF channel.closed THEN cancelled ELSE FALSE
  /\ UNCHANGED <<diffVars, protoVars, wireVars, now, lastMsgAtRef, readyState,
                 pings, wsReadyRef, timerAt, pwVars, loads>>

\* The cleanup of the effect: closed = true, clearTimeout, ws.close().
ChannelCleanup ==
  /\ ~channel.closed
  /\ channel' = [channel EXCEPT
                   !.closed = TRUE,
                   !.timerRef = 0,
                   !.ws = IF @ \in {"CONNECTING", "OPEN"} THEN "CLOSING" ELSE @]
  /\ UNCHANGED <<diffVars, protoVars, wireVars, hbVars, pwVars, loads>>

ChannelNext ==
  \/ ChannelOpen
  \/ ChannelError
  \/ ChannelHeartbeatTimeout
  \/ ChannelDrop
  \/ ChannelClosed
  \/ ChannelTimer
  \/ ChannelCleanup

SpecChannel == ChannelInit /\ [][ChannelNext]_vars

\* The browser delivers the close event of a closed socket and runs a timer
\* that is set.
SpecChannelLive ==
  /\ SpecChannel
  /\ WF_vars(ChannelClosed)
  /\ WF_vars(ChannelTimer)

(***************************************************************************)
(* useHeartbeat on one socket of the page, from the socket's creation.     *)
(***************************************************************************)
\* The interval of useHeartbeat and the threshold the page passes to it.
intervalMs == 5000
staleThresholdMs == 30000

\* Time passes in steps of half an interval, up to MaxNow.
TimeStepMs == intervalMs \div 2
MaxNow == 40000

\* A staleness test that already fires at the threshold.
isStaleAtThreshold(at, last) == at - last >= staleThresholdMs

\* Date.now() - last > staleThresholdMs
isStale(at, last) == at - last > staleThresholdMs

HeartbeatInit ==
  /\ DiffIdle /\ ProtoInit /\ WireIdle /\ PasswordIdle /\ HookIdle
  /\ now = 0
  /\ lastMsgAtRef = 0
  /\ readyState = "CONNECTING"
  /\ cancelled = FALSE
  /\ pings = 0
  /\ wsReadyRef = FALSE
  /\ timerAt = intervalMs

\* Time passes, no further than the next run of the interval.
Advance ==
  /\ now + TimeStepMs <= MaxNow
  /\ now + TimeStepMs <= timerAt
  /\ now' = now + TimeStepMs
  /\ UNCHANGED <<diffVars, channel, loads, protoVars, wireVars, pwVars, lastMsgAtRef,
                 readyState, cancelled, pings, wsReadyRef, timerAt>>

\* The open event: handleOpen.
HeartbeatOpen ==
  /\ readyState = "CONNECTING"
  /\ readyState' = "OPEN"
  /\ lastMsgAtRef' = now
  /\ wsReadyRef' = TRUE
  /\ UNCHANGED <<diffVars, channel, loads, protoVars, wireVars, pwVars, now, cancelled, pings,
                 timerAt>>

\* A message event: handleCoeditMsg and handleMessage note its time.
HeartbeatMessage ==
  /\ readyState = "OPEN"
  /\ lastMsgAtRef' = now
  /\ UNCHANGED <<diffVars, channel, loads, protoVars, wireVars, pwVars, now, readyState,
                 cancelled, pings, wsReadyRef, timerAt>>

\* The callback of setInterval.
HeartbeatTick ==
  /\ now = timerAt
  /\ timerAt' = timerAt + intervalMs
  /\ IF cancelled \/ readyState # "OPEN"
       THEN UNCHANGED <<cancelled, readyState, wsReadyRef, pings>>
       ELSE IF isStale(now, lastMsgAtRef)
         THEN /\ cancelled' = TRUE
              /\ readyState' = "CLOSING"
              /\ wsReadyRef' = FALSE
              /\ pings' = pings
         ELSE /\ pings' = pings + 1
              /\ UNCHANGED <<cancelled, readyState, wsReadyRef>>
  /\ UNCHANGED <<diffVars, channel, loads, protoVars, wireVars, pwVars, now, lastMsgAtRef>>

\* A render of the page: onTimeout is a new function, so the effect of
\* useHeartbeat is cleaned up and run again on the same socket, with a new
\* cancelled flag and a new interval.
HeartbeatRender ==
  /\ now < timerAt
  /\ cancelled' = FALSE
  /\ timerAt' = now + intervalMs
  /\ UNCHANGED <<diffVars, channel, loads, protoVars, wireVars, pwVars, now, lastMsgAtRef,
                 readyState, pings, wsReadyRef>>

\* The close event of the socket, after socket.close() or from the network:
\* handleClose.
HeartbeatClose ==
  /\ readyState \in {"OPEN", "CLOSING"}
  /\ readyState' = "CLOSED"
  /\ wsReadyRef' = FALSE
  /\ UNCHANGED <<diffVars, channel, loads, protoVars, wireVars, pwVars, now, lastMsgAtRef,
                 cancelled, pings, timerAt>>

HeartbeatNext ==
  \/ Advance
  \/ HeartbeatOpen
  \/ HeartbeatMessage
  \/ HeartbeatTick
  \/ HeartbeatRender
  \/ HeartbeatClose

SpecHeartbeat == HeartbeatInit /\ [][HeartbeatNext]_vars

(***************************************************************************)
(* Authentication of one page: the load effect, the login form, the        *)
(* password form, and the 401 answers of snapshot fetches.                 *)
(***************************************************************************)
\* Passwords typed into the forms ("" is the empty input) and set at the
\* server ("" is no password).
Passwords == {"", "p", "q"}

\* POST /api/password requests of the page.
MaxPwRequests == 2

\* A setStoredPassword that leaves the stored value on an empty password.
setStoredPasswordKeeps(stored, password) ==
  IF password # "" THEN <<password>> ELSE stored

\* setStoredPassword: setItem for a non-empty password, removeItem otherwise.
setStoredPassword(stored, password) ==
  IF password # "" THEN <<password>> ELSE <<>>

\* The password fetchSnapshot(slug) puts in its Authorization header; "" is
\* no header.
headerPassword(stored) == IF stored = <<>> THEN "" ELSE stored[1]

\* The auth boundary of the server: a request with this password passes.
Allowed(password) == serverPassword = "" \/ password = serverPassword

\* useRealtimeChannel(null): the socket is closed and dropped, its listeners
\* removed.
TearDown(c) ==
  /\ sock' = [sock EXCEPT ![c] = "none"]
  /\ c2s' = [c2s EXCEPT ![c] = <<>>]
  /\ s2c' = [s2c EXCEPT ![c] = <<>>]
  /\ joinFetch' = [joinFetch EXCEPT ![c] = NoFetch]
  /\ server' = [server EXCEPT !.subs = @ \ {c}]

\* A handleAuthError that sets the state and leaves the socket.
handleAuthErrorKeepsSocket(c) ==
  /\ authState' = [authState EXCEPT ![c] = "needPassword"]
  /\ UNCHANGED <<sock, c2s, s2c, joinFetch, server>>

\* handleAuthError on an UnauthorizedError, and the render after it.
handleAuthError(c) ==
  /\ authState' = [authState EXCEPT ![c] = "needPassword"]
  /\ TearDown(c)

AuthInit ==
  /\ DiffIdle /\ WireIdle /\ HeartbeatIdle /\ HookIdle
  /\ authState = [c \in Clients |-> "unknown"]
  /\ content = [c \in Clients |-> <<>>]
  /\ revRef = [c \in Clients |-> 0]
  /\ queueRef = [c \in Clients |-> NewPendingQueue]
  /\ storage = [c \in Clients |-> NoValue]
  /\ nextId = [c \in Clients |-> 0]
  /\ reconcile = [c \in Clients |-> <<>>]
  /\ joinFetch = [c \in Clients |-> NoFetch]
  /\ sock = [c \in Clients |-> "none"]
  /\ c2s = [c \in Clients |-> <<>>]
  /\ s2c = [c \in Clients |-> <<>>]
  /\ server = InitialDocument
  /\ envSteps = 0
  /\ edits = 0
  /\ serverPassword \in Passwords
  /\ \E stored \in {<<>>, <<"p">>, <<"q">>} :
       /\ storedPassword = [c \in Clients |-> stored]
       /\ activePassword = [c \in Clients |-> headerPassword(stored)]
  /\ loading = [c \in Clients |-> c = Page]
  /\ pwRequests = 0
  /\ passwordStatus = "none"

\* The load effect: fetchSnapshot(slug) and what follows its answer.
AuthLoad ==
  /\ loading[Page]
  /\ loading' = [loading EXCEPT ![Page] = FALSE]
  /\ IF Allowed(headerPassword(storedPassword[Page]))
       THEN /\ revRef' = [revRef EXCEPT ![Page] = server.rev]
            /\ queueRef' = [queueRef EXCEPT ![Page] =
                              setLatestServerSeq(@, server.rev)]
            /\ content' = [content EXCEPT ![Page] = server.text]
            /\ authState' = [authState EXCEPT ![Page] = "authorized"]
            /\ sock' = [sock EXCEPT ![Page] =
                          IF authState[Page] = "authorized" THEN @ ELSE "closed"]
            /\ UNCHANGED <<c2s, s2c, joinFetch, server>>
       ELSE /\ handleAuthError(Page)
            /\ UNCHANGED <<revRef, queueRef, content>>
  /\ UNCHANGED <<storage, nextId, reconcile, boundVars, diffVars, channel, loads, wireVars,
                 hbVars, storedPassword, activePassword, serverPassword,
                 pwRequests, passwordStatus>>

\* The socket of the authorized page passes the upgrade and opens.
AuthOpen ==
  /\ Allowed(headerPassword(storedPassword[Page]))
  /\ HandleOpen(Page)

\* The answer to the snapshot fetch of handleJoin.
AuthSnapshot ==
  /\ joinFetch[Page].st = "resp"
  /\ IF Allowed(headerPassword(storedPassword[Page]))
       THEN HandleSnapshot(Page)
       ELSE /\ joinFetch' = [joinFetch EXCEPT ![Page] = NoFetch]
            /\ UNCHANGED <<authState, content, revRef, queueRef, storage,
                           nextId, reconcile, sock, netVars, boundVars,
                           diffVars, sideVars>>

\* The answer to the k-th snapshot fetch of reconcileWithServer.
AuthReconcile(k) ==
  /\ k \in 1..Len(reconcile[Page])
  /\ IF Allowed(headerPassword(storedPassword[Page]))
       THEN ReconcileDone(Page, k)
       ELSE /\ reconcile' = [reconcile EXCEPT ![Page] =
                               [j \in 1..(Len(@) - 1) |->
                                  IF j < k THEN @[j] ELSE @[j + 1]]]
            /\ handleAuthError(Page)
            /\ UNCHANGED <<content, revRef, queueRef, storage, nextId,
                           boundVars, diffVars, sideVars>>

\* handleLoginSubmit with loginPassword.
AuthLogin(loginPassword) ==
  /\ authState[Page] = "needPassword"
  /\ IF Allowed(loginPassword)
       THEN /\ storedPassword' = [storedPassword EXCEPT ![Page] =
                                    setStoredPassword(@, loginPassword)]
            /\ activePassword' = [activePassword EXCEPT ![Page] = loginPassword]
            /\ content' = [content EXCEPT ![Page] = server.text]
            /\ revRef' = [revRef EXCEPT ![Page] = server.rev]
            /\ queueRef' = [queueRef EXCEPT ![Page] =
                              setLatestServerSeq(@, server.rev)]
            /\ authState' = [authState EXCEPT ![Page] = "authorized"]
            /\ loading' = [loading EXCEPT ![Page] = TRUE]
            /\ sock' = [sock EXCEPT ![Page] = "closed"]
       ELSE UNCHANGED <<storedPassword, activePassword, content, revRef,
                        queueRef, authState, loading, sock>>
  /\ UNCHANGED <<storage, nextId, reconcile, joinFetch, netVars, boundVars,
                 diffVars, channel, loads, wireVars, hbVars, serverPassword, pwRequests,
                 passwordStatus>>

\* handlePasswordUpdate with newPasswordInput.
AuthPasswordUpdate(nextPassword) ==
  /\ authState[Page] = "authorized"
  /\ IF nextPassword = activePassword[Page]
       THEN /\ passwordStatus' = "nochange"
            /\ UNCHANGED <<authState, sock, netVars, joinFetch, loading,
                           storedPassword, activePassword, serverPassword,
                           pwRequests>>
       ELSE /\ pwRequests < MaxPwRequests
            /\ pwRequests' = pwRequests + 1
            /\ IF Allowed(IF activePassword[Page] # ""
                            THEN activePassword[Page]
                            ELSE headerPassword(storedPassword[Page]))
                 THEN /\ serverPassword' = nextPassword
                      /\ storedPassword' =
                           [storedPassword EXCEPT ![Page] =
                              setStoredPassword(@, nextPassword)]
                      /\ activePassword' =
                           [activePassword EXCEPT ![Page] = nextPassword]
                      /\ passwordStatus' =
                           IF nextPassword # "" THEN "updated" ELSE "removed"
                      /\ authState' = [authState EXCEPT ![Page] = "unknown"]
                      /\ loading' = [loading EXCEPT ![Page] = TRUE]
                      /\ TearDown(Page)
                 ELSE /\ passwordStatus' = "wrong"
                      /\ handleAuthError(Page)
                      /\ UNCHANGED <<storedPassword, activePassword,
                                     serverPassword, loading>>
  /\ UNCHANGED <<content, revRef, queueRef, storage, nextId, reconcile,
                 boundVars, diffVars, channel, loads, wireVars, hbVars>>

\* Another user of the document changes its password.
ServerPasswordChange(password) ==
  /\ envSteps < MaxEnvSteps
  /\ envSteps' = envSteps + 1
  /\ password # serverPassword
  /\ serverPassword' = password
  /\ UNCHANGED <<clientVars, netVars, edits, diffVars, channel, loads, wireVars, hbVars,
                 storedPassword, activePassword, loading, pwRequests,
                 passwordStatus>>

AuthNext ==
  \/ AuthLoad
  \/ AuthOpen
  \/ AuthSnapshot
  \/ \E k \in 1..MaxInflight + 1 : AuthReconcile(k)
  \/ \E next \in UserInputs(content[Page]) : OnChange(Page, next)
  \/ \E loginPassword \in Passwords : AuthLogin(loginPassword)
  \/ \E nextPassword \in Passwords : AuthPasswordUpdate(nextPassword)
  \/ \E password \in Passwords : ServerPasswordChange(password)

SpecAuth == AuthInit /\ [][AuthNext]_vars

(***************************************************************************)
(* The load effects of EditPageClient (client Page) and ViewPageClient     *)
(* (the other client): the initial snapshot fetch, its cancelled / alive   *)
(* flag and what the page does with the answer.                            *)
(***************************************************************************)
\* Snapshot fetches of load effects in flight, per page.
MaxLoads == 3

\* The fetches in flight without the k-th.
Settled(ls, k) == SubSeq(ls, 1, k - 1) \o SubSeq(ls, k + 1, Len(ls))

\* The load effects that run when slug or queryPassword is set: the cleanup
\* of those that ran (cancelled = true, alive = false), the effect with the
\* authNonce of this render, and, after setAuthNonce, its cleanup and the
\* effect of the next render. Each calls
\* fetchSnapshot(slug, directPassword ? {password: directPassword} : undefined),
\* which fixes the header when the request is made; "" is no queryPassword.
runLoadEffects(ls, stored, directPassword) ==
  LET l == [alive |-> TRUE, directPassword |-> directPassword,
            header |-> IF directPassword # "" THEN directPassword
                       ELSE headerPassword(stored)]
  IN  [k \in 1..Len(ls) |-> [ls[k] EXCEPT !.alive = FALSE]]
        \o <<[l EXCEPT !.alive = FALSE], l>>

\* The body of load() after its await, past the cancelled / alive test.
loadSettled(c, l, failed) ==
  IF failed
    THEN \* fetch rejected or the status is neither ok nor 401:
         \* handleAuthError logs the error (edit page), console.error (view).
         UNCHANGED <<authState, content, revRef, queueRef, storedPassword,
                     activePassword, sock, c2s, s2c, joinFetch, server>>
  ELSE IF Allowed(l.header)
    THEN /\ authState' = [authState EXCEPT ![c] = "authorized"]
         /\ content' = [content EXCEPT ![c] = server.text]
         /\ revRef' = [revRef EXCEPT ![c] =
                         IF c = Page THEN server.rev ELSE @]
         /\ queueRef' = [queueRef EXCEPT ![c] =
                           IF c = Page
                             THEN setLatestServerSeq(@, server.rev) ELSE @]
         /\ storedPassword' = [storedPassword EXCEPT ![c] =
                                 IF l.directPassword # ""
                                   THEN setStoredPassword(@, l.directPassword)
                                   ELSE @]
         /\ activePassword' = [activePassword EXCEPT ![c] =
                                 IF c = Page /\ l.directPassword # ""
                                   THEN l.directPassword ELSE @]
         /\ UNCHANGED <<sock, c2s, s2c, joinFetch, server>>
  ELSE IF c = Page
    THEN /\ handleAuthError(c)
         /\ UNCHANGED <<content, revRef, queueRef, storedPassword,
                        activePassword>>
    ELSE /\ authState' = [authState EXCEPT ![c] = "needPassword"]
         /\ UNCHANGED <<content, revRef, queueRef, storedPassword,
                        activePassword, sock, c2s, s2c, joinFetch, server>>

\* A load() that acts on the answer whatever its flag says.
LoadDoneIgnoresCancelled(c, k, failed) ==
  /\ k \in 1..Len(loads[c])
  /\ loads' = [loads EXCEPT ![c] = Settled(@, k)]
  /\ loadSettled(c, loads[c][k], failed)
  /\ UNCHANGED <<storage, nextId, reconcile, boundVars, diffVars, wireVars,
                 hbVars, loading, serverPassword, pwRequests, passwordStatus,
                 channel>>

\* The k-th fetch in flight settles and load() resumes:
\* if (cancelled) return  /  if (!alive) return, in both branches.
LoadDone(c, k, failed) ==
  /\ k \in 1..Len(loads[c])
  /\ loads' = [loads EXCEPT ![c] = Settled(@, k)]
  /\ IF loads[c][k].alive
       THEN loadSettled(c, loads[c][k], failed)
       ELSE UNCHANGED <<authState, content, revRef, queueRef, storedPassword,
                        activePassword, sock, c2s, s2c, joinFetch, server>>
  /\ UNCHANGED <<storage, nextId, reconcile, boundVars, diffVars, wireVars,
                 hbVars, loading, serverPassword, pwRequests, passwordStatus,
                 channel>>

\* The pages mount: the reset effect and the load effects have run.
LoadInit ==
  /\ DiffIdle /\ WireIdle /\ HeartbeatIdle
  /\ channel = [closed |-> TRUE, ws |-> "CLOSED", retryRef |-> 0,
                timerRef |-> 0, delay |-> 0, created |-> 0, closes |-> 0]
  /\ authState = [c \in Clients |-> "unknown"]
  /\ content = [c \in Clients |-> <<>>]
  /\ revRef = [c \in Clients |-> 0]
  /\ queueRef = [c \in Clients |-> NewPendingQueue]
  /\ storage = [c \in Clients |-> NoValue]
  /\ nextId = [c \in Clients |-> 0]
  /\ reconcile = [c \in Clients |-> <<>>]
  /\ joinFetch = [c \in Clients |-> NoFetch]
  /\ sock = [c \in Clients |-> "none"]
  /\ c2s = [c \in Clients |-> <<>>]
  /\ s2c = [c \in Clients |-> <<>>]
  /\ server = InitialDocument
  /\ envSteps = 0
  /\ edits = 0
  /\ serverPassword \in Passwords
  /\ storedPassword = [c \in Clients |-> <<>>]
  /\ activePassword = [c \in Clients |-> ""]
  /\ loading = [c \in Clients |-> FALSE]
  /\ pwRequests = 0
  /\ passwordStatus = "none"
  /\ \E queryPassword \in {"", "p"} :
       loads = [c \in Clients |-> runLoadEffects(<<>>, <<>>, queryPassword)]

\* slug or queryPassword changes: the reset effect (authState 'unknown',
\* authNonce + 1, activePassword from the store) and the load effects.
LoadStart(c, queryPassword) ==
  /\ Len(loads[c]) + 2 <= MaxLoads
  /\ authState' = [authState EXCEPT ![c] = "unknown"]
  /\ activePassword' = [activePassword EXCEPT ![c] =
                          IF c = Page
                            THEN headerPassword(storedPassword[c]) ELSE @]
  /\ loads' = [loads EXCEPT ![c] =
                 runLoadEffects(@, storedPassword[c], queryPassword)]
  /\ UNCHANGED <<content, revRef, queueRef, storage, nextId, reconcile,
                 joinFetch, sock, netVars, boundVars, diffVars, wireVars,
                 hbVars, storedPassword, loading, serverPassword, pwRequests,
                 passwordStatus, channel>>

\* The server accepts an edit of an editor elsewhere (client_id 0).
LoadServerEdit ==
  /\ edits < MaxEdits
  /\ edits' = edits + 1
  /\ server' = Accept(server, [base_rev |-> server.rev,
                               ops |-> <<InsertOp(0, <<98>>)>>,
                               client_id |-> 0,
                               op_id |-> <<0, edits + 1>>])
  /\ UNCHANGED <<clientVars, c2s, s2c, envSteps, diffVars, sideVars>>

LoadNext ==
  \/ \E c \in Clients, queryPassword \in {"", "p"} :
       LoadStart(c, queryPassword)
  \/ \E c \in Clients, k \in 1..MaxLoads, failed \in BOOLEAN :
       LoadDone(c, k, failed)
  \/ LoadServerEdit
  \/ \E password \in Passwords : ServerPasswordChange(password)

SpecLoad == LoadInit /\ [][LoadNext]_vars




(***************************************************************************)
(* C2.  diffToOps round-trips: for every pair of texts, including texts    *)
(* with code points outside the BMP, applyOps(before, diffToOps(before,    *)
(* after)) equals after.                                                   *)
(***************************************************************************)
C2_RoundTrip == dPc = "applied" => dOut = dAfter

(***************************************************************************)
(* C3.  diffToOps returns at most one delete followed by at most one       *)
(* insert, both at the length of the longest common prefix (in code        *)
(* points), and returns the empty list exactly when before equals after.   *)
(***************************************************************************)
C3_DiffShape ==
  LET \* Length of the longest common prefix, in code points.
      CommonPrefixLen(a, b) ==
        CHOOSE k \in 0..Min(Len(a), Len(b)) :
          /\ SubSeq(a, 1, k) = SubSeq(b, 1, k)
          /\ (k < Min(Len(a), Len(b)) => a[k + 1] # b[k + 1])
  IN
  dPc # "start" =>
    /\ Len(dOps) <= 2
    /\ Cardinality({k \in 1..Len(dOps) : dOps[k].type = "delete"}) <= 1
    /\ Cardinality({k \in 1..Len(dOps) : dOps[k].type = "insert"}) <= 1
    /\ (Len(dOps) = 2 => dOps[1].type = "delete" /\ dOps[2].type = "insert")
    /\ \A k \in 1..Len(dOps) : dOps[k].pos = CommonPrefixLen(dBefore, dAfter)
    /\ (dOps = <<>>) <=> (dBefore = dAfter)

C3_Witness ==
  /\ dPc = "diffed"
  /\ Len(dOps) = 2
  /\ dOps[1].pos > 0

(***************************************************************************)
(* Steps of the page handlers, recognised from the state they start in and *)
(* the state they leave.                                                   *)
(***************************************************************************)
\* Client c takes the frame at the head of its socket.
TakesFrame(c) ==
  /\ sock[c] = "open"
  /\ sock'[c] = "open"
  /\ s2c[c] # <<>>
  /\ s2c'[c] = Tail(s2c[c])

AckStep(c) ==
  /\ TakesFrame(c)
  /\ Head(s2c[c]).type = "applied"
  /\ Head(s2c[c]).client_id = c

OpBroadcastStep(c) ==
  /\ TakesFrame(c)
  /\ Head(s2c[c]).type = "applied"
  /\ Head(s2c[c]).client_id # c

\* reconcileWithServer finds drift and enqueues a repair edit.
RepairStep(c) ==
  /\ Len(reconcile'[c]) < Len(reconcile[c])
  /\ nextId'[c] = nextId[c] + 1

\* Nothing of the session is under way: both sockets are open, every edit
\* frame was read by the server, every frame of the server was handled and
\* no join snapshot is awaited.
AllDelivered ==
  \A c \in Clients :
    /\ sock[c] = "open"
    /\ c2s[c] = <<>>
    /\ s2c[c] = <<>>
    /\ joinFetch[c] = NoFetch

(***************************************************************************)
(* C1.  Convergence: in sessions whose sockets stay open and that run      *)
(* onChange, ack and op_broadcast handling only, once every edit has been  *)
(* acked (every pending queue is empty) and every applied frame has been   *)
(* delivered, every client's local text is the server text.                *)
(***************************************************************************)
C1_Convergence ==
  (/\ envSteps = 0
   /\ \A c \in Clients : nextId[c] <= 1
   /\ AllDelivered
   /\ \A c \in Clients : isEmpty(queueRef[c]))
    => \A c \in Clients : content[c] = server.text

(***************************************************************************)
(* C4.  When an op_broadcast of another client is handled while the        *)
(* pending queue is non-empty, the ops of every pending edit are           *)
(* transformed against the remote ops, the client taking role A.           *)
(***************************************************************************)
C4_PendingTransformed ==
  [][\A c \in Clients :
       OpBroadcastStep(c) =>
         LET m == Head(s2c[c])
             remote == [k \in 1..Len(m.ops) |->
                          [op |-> m.ops[k], author |-> m.client_id]]
         IN  /\ Len(queueRef'[c].q) = Len(queueRef[c].q)
             /\ \A k \in 1..Len(queueRef[c].q) :
                  queueRef'[c].q[k].ops =
                    TransformAgainstLog(queueRef[c].q[k].ops, c, remote)]_vars

C7_RepairAfterDrain ==
  [][\A c \in Clients : RepairStep(c) => isEmpty(queueRef[c])]_vars

(***************************************************************************)
(* C8.  When reconcileWithServer gets snapshot (rev r, content S) and the  *)
(* local text L differs from S, the repair edit it enqueues has            *)
(* base_rev = r and ops that turn S into L.                                *)
(***************************************************************************)
C8_RepairTurnsSnapshotIntoLocal ==
  [][\A c \in Clients :
       (RepairStep(c) /\ Len(reconcile[c]) = 1) =>
         LET snap == reconcile[c][1]
             e == queueRef'[c].q[Len(queueRef'[c].q)]
         IN  /\ e.base_rev = snap.rev
             /\ BufferApplyAll(snap.content, e.ops) = content[c]]_vars

(***************************************************************************)
(* C9.  An edit the server rejected with base_too_old does not stay in the *)
(* pending queue: once the error frame was handled and nothing of the      *)
(* session is under way (no frame, no snapshot fetch), the queue holds no  *)
(* edit the server has not accepted.                                       *)
(***************************************************************************)
C9_RejectedEditLeaves ==
  (AllDelivered /\ \A c \in Clients : reconcile[c] = <<>>)
    => \A c \in Clients :
         \A k \in 1..Len(queueRef[c].q) :
           \E a \in server.accepted : a.op_id = queueRef[c].q[k].op_id

C15_ApplyClamps ==
  (dPc = "applied" /\ Len(dOps) = 1) =>
    LET op == dOps[1]
        n == Len(dBefore)
        from == Min(op.pos, n)
    IN  IF op.type = "insert"
          THEN /\ dOut = SubSeq(dBefore, 1, from) \o op.text
                           \o SubSeq(dBefore, from + 1, n)
               /\ (op.pos > n => dOut = dBefore \o op.text)
          ELSE /\ dOut = SubSeq(dBefore, 1, from)
                           \o SubSeq(dBefore, Min(op.pos + op.len, n) + 1, n)
               /\ (op.pos >= n => dOut = dBefore)

\* A delete that starts inside the text and reaches past its end was
\* applied and removed the rest of the text.
C15_Witness ==
  /\ dPc = "applied"
  /\ Len(dOps) = 1
  /\ dOps[1].type = "delete"
  /\ dOps[1].pos > 0
  /\ dOps[1].pos < Len(dBefore)
  /\ dOps[1].pos + dOps[1].len > Len(dBefore)
  /\ dOut = SubSeq(dBefore, 1, dOps[1].pos)

\* Sum of the len of the deletes of ops.
DeletedLen(ops) ==
  LET idx == {k \in 1..Len(ops) : ops[k].type = "delete"}
  IN  IF idx = {} THEN 0 ELSE ops[CHOOSE k \in idx : TRUE].len

\* Code points of the text of the inserts of ops.
InsertedLen(ops) ==
  LET idx == {k \in 1..Len(ops) : ops[k].type = "insert"}
  IN  IF idx = {} THEN 0 ELSE Len(ops[CHOOSE k \in idx : TRUE].text)

(***************************************************************************)
(* C16.  The ops of diffToOps count in code points of the before text: pos *)
(* is a code point position of before, and the len of the delete is the    *)
(* number of code points of the removed middle, so that                    *)
(* |before| - len + |inserted text| = |after|.                             *)
(***************************************************************************)
C16_CodePointUnits ==
  dPc # "start" =>
    /\ \A k \in 1..Len(dOps) : dOps[k].pos <= Len(dBefore)
    /\ Len(dBefore) - DeletedLen(dOps) + InsertedLen(dOps) = Len(dAfter)

(***************************************************************************)
(* C11.  No double-apply: an applied frame whose client_id is the          *)
(* author's own reaches the editor as one ack and nothing else, and        *)
(* handling it, the repeated ack after a reconnect resend included, leaves *)
(* the author's local text as it is.                                       *)
(***************************************************************************)
C11_NoDoubleApply ==
  [][\A c \in Clients :
       AckStep(c) =>
         /\ handleServerMessage(c, Head(s2c[c]))
              = <<AckMsg(Head(s2c[c]).rev, Head(s2c[c]).op_id)>>
         /\ content'[c] = content[c]]_vars

\* The applied frame at the head of a client's socket answers a resend: the
\* server had accepted the edit before this socket opened (the snapshot
\* fetched at the open already has its rev), and the local text differs from
\* what the frame's ops would make of it.
C11_Witness ==
  \E c \in Clients :
    /\ sock[c] = "open"
    /\ s2c[c] # <<>>
    /\ Head(s2c[c]).type = "applied"
    /\ Head(s2c[c]).client_id = c
    /\ joinFetch[c].st = "resp"
    /\ joinFetch[c].rev >= Head(s2c[c]).rev
    /\ applyOps(content[c], Head(s2c[c]).ops) # content[c]

(***************************************************************************)
(* C13.  Every frame the client puts on the WebSocket has a type in        *)
(* {join, edit, cursor, ime, profile, ping}; the join of the editor goes   *)
(* to the server as a join frame.                                          *)
(***************************************************************************)
C13_FrameTypes ==
  \A k \in 1..Len(wSent) :
    wSent[k].type \in {"join", "edit", "cursor", "ime", "profile", "ping"}

\* The socket took a frame of the server in this step.
ReceiveStep == Len(wFrames') = Len(wFrames) + 1

\* The frame taken in a ReceiveStep.
Received == wFrames'[Len(wFrames')]

(***************************************************************************)
(* C14.  A server frame of a type the client does not handle (error,       *)
(* pong) leaves the local text, rev, pending queue and presence map        *)
(* unchanged, reaches no handler of editor messages and does not close the *)
(* connection.                                                             *)
(***************************************************************************)
C14_UnknownFrameIgnored ==
  [][(ReceiveStep
      /\ Received.type \notin {"applied", "cursor", "ime",
                               "presence_snapshot", "presence_diff"})
       => /\ content'[Page] = content[Page]
          /\ revRef'[Page] = revRef[Page]
          /\ queueRef'[Page] = queueRef[Page]
          /\ presence' = presence
          /\ wDispatched' = wDispatched
          /\ sock[Page] = "open"
          /\ sock'[Page] = "open"]_vars

\* After a remote applied frame changed the text and a cursor frame added a
\* client to the presence map, an error frame was received; the socket is
\* open and text and presence are what the first two frames made them.
C14_Witness ==
  /\ Len(wFrames) = 3
  /\ wFrames[1].type = "applied"
  /\ wFrames[1].client_id = 2
  /\ wFrames[2].type = "cursor"
  /\ wFrames[2].slug = Slug
  /\ wFrames[3].type = "error"
  /\ sock[Page] = "open"
  /\ content[Page] = applyOps(InitialDocument.text, wFrames[1].ops)
  /\ revRef[Page] = wFrames[1].rev
  /\ \E e \in presence : e.client_id = 2 /\ e.cursor = wFrames[2].cursor

(***************************************************************************)
(* C19.  On one connection, with applied frames arriving in increasing rev *)
(* order, the ack and op_broadcast messages reach the editor in the order  *)
(* of the frames: the serverSeq values handled never decrease, the rev of  *)
(* the editor never decreases on a frame, and the ack at rev r comes       *)
(* before every op_broadcast with serverSeq > r.                           *)
(***************************************************************************)
C19_Ordering ==
  [][ReceiveStep =>
       /\ \A i, j \in 1..Len(wDispatched') :
            i < j => wDispatched'[i].serverSeq <= wDispatched'[j].serverSeq
       /\ \A i, j \in 1..Len(wDispatched') :
            (/\ wDispatched'[i].type = "ack"
             /\ wDispatched'[j].type = "op_broadcast"
             /\ wDispatched'[j].serverSeq > wDispatched'[i].serverSeq)
              => i < j
       /\ \A k \in 1..Len(wDispatched) : wDispatched'[k] = wDispatched[k]
       /\ revRef'[Page] >= revRef[Page]]_vars

\* An op_broadcast, then the ack of the page's own edit, then the
\* op_broadcasts of a later frame were handled, and the rev of the editor is
\* the rev of the last frame.
C19_Witness ==
  /\ \E i, j, k \in 1..Len(wDispatched) :
       /\ i < j /\ j < k
       /\ wDispatched[i].type = "op_broadcast"
       /\ wDispatched[j].type = "ack"
       /\ wDispatched[j].serverSeq > wDispatched[i].serverSeq
       /\ wDispatched[k].type = "op_broadcast"
       /\ wDispatched[k].serverSeq > wDispatched[j].serverSeq
  /\ revRef[Page] = wDispatched[Len(wDispatched)].serverSeq

(***************************************************************************)
(* C20.  An applied frame becomes exactly one kind of editor message: one  *)
(* ack with its rev and op_id when its client_id is the connection's own   *)
(* client id, otherwise one op_broadcast per op, in the order of ops, each *)
(* with serverSeq = rev; never both, and a frame without client_id counts  *)
(* as remote.                                                              *)
(***************************************************************************)
C20_AppliedTranslation ==
  [][(ReceiveStep /\ Received.type = "applied") =>
       LET f == Received
           n == Len(wDispatched)
           new == SubSeq(wDispatched', n + 1, Len(wDispatched'))
       IN  /\ SubSeq(wDispatched', 1, n) = wDispatched
           /\ IF f.client_id = wClientId
                THEN /\ Len(new) = 1
                     /\ new[1].type = "ack"
                     /\ new[1].serverSeq = f.rev
                     /\ new[1].opId = f.op_id
                ELSE /\ Len(new) = Len(f.ops)
                     /\ \A k \in 1..Len(new) :
                          /\ new[k].type = "op_broadcast"
                          /\ new[k].operation = f.ops[k]
                          /\ new[k].serverSeq = f.rev]_vars

\* The socket received an applied frame of the page itself with two ops and
\* an applied frame without client_id with two ops: one ack for the first,
\* two op_broadcasts for the second.
C20_Witness ==
  /\ wClientId = Page
  /\ Len(wFrames) = 2
  /\ wFrames[1].type = "applied"
  /\ wFrames[1].client_id = Page
  /\ Len(wFrames[1].ops) = 2
  /\ wFrames[2].type = "applied"
  /\ wFrames[2].client_id = 0
  /\ Len(wFrames[2].ops) = 2
  /\ Len(wDispatched) = 3
  /\ wDispatched[1].type = "ack"
  /\ wDispatched[3].operation = wFrames[2].ops[2]

\* The callback of the heartbeat interval ran in this step.
TickStep == timerAt' = timerAt + intervalMs

(***************************************************************************)
(* C12.  At every run of the 5 s heartbeat interval on an OPEN socket: if  *)
(* the last server message is at most 30 s old one ping is sent and the    *)
(* socket stays open; if it is older the socket is closed, onTimeout runs  *)
(* (wsReadyRef becomes false) and no ping is sent.  On a socket that is no *)
(* longer OPEN no ping is sent, at this run or any later one.              *)
(***************************************************************************)
C12_Heartbeat ==
  [][/\ (TickStep /\ readyState = "OPEN") =>
          IF now - lastMsgAtRef <= 30000
            THEN pings' = pings + 1 /\ readyState' = "OPEN"
            ELSE /\ pings' = pings
                 /\ readyState' # "OPEN"
                 /\ wsReadyRef' = FALSE
     /\ ~TickStep => pings' = pings
     /\ readyState \in {"CLOSING", "CLOSED"} =>
          /\ pings' = pings
          /\ readyState' \in {"CLOSING", "CLOSED"}]_vars

\* The socket answered for 30 s after its last message, a ping went out at
\* the run exactly 30 s after it, and the run after that closed the socket.
C12_Witness ==
  /\ cancelled
  /\ readyState = "CLOSING"
  /\ wsReadyRef = FALSE
  /\ now - lastMsgAtRef = 35000
  /\ pings >= 7
  /\ lastMsgAtRef > 0

(***************************************************************************)
(* C17.  A 401 answer to a snapshot fetch, of the load effect or of        *)
(* reconcileWithServer, sets authState to needPassword and closes the      *)
(* WebSocket, and changes neither the local text nor the pending queue;    *)
(* and whenever authState is not authorized the page has no WebSocket.     *)
(***************************************************************************)
C17_Unauthorized ==
  [][LET password == IF storedPassword[Page] = <<>> THEN ""
                     ELSE storedPassword[Page][1]
         refused == serverPassword # "" /\ password # serverPassword
         loadStep == loading[Page] /\ ~loading'[Page]
         reconcileStep == Len(reconcile'[Page]) < Len(reconcile[Page])
     IN  /\ (refused /\ (loadStep \/ reconcileStep)) =>
              /\ authState'[Page] = "needPassword"
              /\ sock'[Page] = "none"
              /\ content'[Page] = content[Page]
              /\ queueRef'[Page] = queueRef[Page]
         /\ authState'[Page] # "authorized" => sock'[Page] = "none"
         /\ sock'[Page] # sock[Page] /\ sock'[Page] # "none" =>
              authState'[Page] = "authorized"]_vars

\* The page was authorized, typed an edit that is still pending, and then a
\* snapshot fetch was refused: needPassword, no socket, text and queue kept.
C17_Witness ==
  /\ authState[Page] = "needPassword"
  /\ passwordStatus = "none"
  /\ sock[Page] = "none"
  /\ ~isEmpty(queueRef[Page])
  /\ content[Page] # server.text
  /\ ~loading[Page]
  /\ reconcile[Page] = <<>>

C21_OpBroadcast ==
  [][\A c \in Clients :
       (OpBroadcastStep(c) /\ Len(Head(s2c[c]).ops) > 0) =>
         LET m == Head(s2c[c])
             after[k \in 0..Len(m.ops)] ==
               IF k = 0 THEN content[c]
               ELSE applyOp(after[k - 1], m.ops[k])
         IN  /\ content'[c] = after[Len(m.ops)]
             /\ revRef'[c] = m.rev
             /\ queueRef'[c].latestAck =
                  (IF m.rev > queueRef[c].latestAck
                     THEN m.rev ELSE queueRef[c].latestAck)
             /\ queueRef'[c].q = queueRef[c].q]_vars

\* A client with an edit of its own in the queue has taken a remote applied
\* frame of two ops: its text is longer than the document's first text by
\* its own character, its rev is the frame's.
C21_Witness ==
  \E c \in Clients :
    /\ Len(queueRef[c].q) = 1
    /\ revRef[c] > InitialDocument.rev
    /\ \E a \in server.accepted :
         /\ a.author # c
         /\ a.rev = revRef[c]
         /\ Len(a.ops) = 2
    /\ s2c[c] = <<>>
    /\ sock[c] = "open"
    /\ envSteps = 0

(***************************************************************************)
(* C24.  An edit leaves the pending queue only through an ack that carries *)
(* its op_id: a send on a closed socket, a close, a resend on open, an     *)
(* op_broadcast, a snapshot and an ack for another op_id leave it queued.  *)
(***************************************************************************)
C24_LeavesOnlyByAck ==
  [][\A c \in Clients :
       \A k \in 1..Len(queueRef[c].q) :
         (\A j \in 1..Len(queueRef'[c].q) :
            queueRef'[c].q[j].op_id # queueRef[c].q[k].op_id)
           => /\ AckStep(c)
              /\ Head(s2c[c]).op_id = queueRef[c].q[k].op_id]_vars

\* An ack took the second edit of a client out of its queue while the first,
\* which the server refused, stays queued.
C24_Witness ==
  \E c \in Clients :
    /\ Len(queueRef[c].q) = 1
    /\ queueRef[c].q[1].op_id = <<c, 1>>
    /\ nextId[c] = 2
    /\ \E a \in server.accepted : a.op_id = <<c, 2>>
    /\ s2c[c] = <<>>
    /\ c2s[c] = <<>>

(***************************************************************************)
(* C28.  When the client has handled a snapshot message, an ack, an        *)
(* op_broadcast or the snapshot response of reconcileWithServer, its rev   *)
(* (revRef) equals latestServerSeq() of its pending queue.                 *)
(***************************************************************************)
C28_RevIsLatestServerSeq ==
  [][\A c \in Clients :
       (\/ TakesFrame(c) /\ Head(s2c[c]).type = "applied"
        \/ joinFetch[c].st = "resp" /\ joinFetch'[c] = NoFetch
        \/ Len(reconcile'[c]) < Len(reconcile[c]))
         => revRef'[c] = latestServerSeq(queueRef'[c])]_vars

\* Every op of every edit made so far, queued or accepted, is an insert.
InsertOnly ==
  /\ \A c \in Clients : \A k \in 1..Len(queueRef[c].q) :
       \A j \in 1..Len(queueRef[c].q[k].ops) :
         queueRef[c].q[k].ops[j].type = "insert"
  /\ \A a \in server.accepted : \A j \in 1..Len(a.ops) :
       a.ops[j].type = "insert"

\* The pending queue of c holds the only edit c has made.
OnlyEditPending(c) ==
  /\ Len(queueRef[c].q) = 1
  /\ queueRef[c].q[1].op_id = <<c, 1>>
  /\ nextId[c] = 1

(***************************************************************************)
(* C27.  While local edits only insert, the characters inserted by an edit *)
(* still in the pending queue are in the local text: no handler of a       *)
(* server message or snapshot response takes the effect of an unacked edit *)
(* out of the text.  With one edit made and still pending, the text is at  *)
(* least as long as the document's first text plus the inserted characters.*)
(***************************************************************************)
C27_PendingInsertsPresent ==
  InsertOnly =>
    \A c \in Clients :
      OnlyEditPending(c) =>
        Len(content[c]) >=
          Len(BmpDocument.text) + InsertedLen(queueRef[c].q[1].ops)

(***************************************************************************)
(* C25.  A page whose user never edits never enqueues and never sends an   *)
(* edit frame, however its snapshot fetches (join snapshot, drift repair)  *)
(* interleave with the op_broadcasts it receives.                          *)
(***************************************************************************)
C25_ReaderNeverEdits ==
  /\ nextId[Reader] = 0
  /\ isEmpty(queueRef[Reader])
  /\ c2s[Reader] = <<>>

(***************************************************************************)
(* C26.  Overlapping invocations of reconcileWithServer never enqueue more *)
(* than one repair edit for the same difference: the queue of the reading  *)
(* page, whose entries are all repair edits, has no two entries with the   *)
(* same base_rev and the same ops.                                         *)
(***************************************************************************)
C26_OneRepairPerDifference ==
  LET q == queueRef[Reader].q
  IN  \A j, k \in 1..Len(q) :
        (j # k) => (q[j].base_rev # q[k].base_rev \/ q[j].ops # q[k].ops)

(***************************************************************************)
(* The PendingQueue of one page under arbitrary calls of enqueue, ack,     *)
(* setLatestServerSeq and flush.                                           *)
(***************************************************************************)
\* Largest serverSeq of a call, and longest queue.
MaxSeq == 3
MaxQueue == 2

\* The op_ids the page can give its edits.
QueueOpIds == {<<Page, n>> : n \in 1..MaxOpIds}

QueueEnqueue(opId) ==
  /\ Len(queueRef[Page].q) < MaxQueue
  /\ queueRef' = [queueRef EXCEPT ![Page] =
                    enqueue(@, [op_id |-> opId,
                                base_rev |-> latestServerSeq(@),
                                ops |-> <<InsertOp(0, <<97>>)>>])]
  /\ UNCHANGED <<authState, content, revRef, storage, nextId, reconcile,
                 joinFetch, sock, netVars, boundVars, diffVars, sideVars>>

\* ack({opId, serverSeq}); NoId stands for a missing opId and 0 for a
\* missing serverSeq.
QueueAck(opId, serverSeq) ==
  /\ queueRef' = [queueRef EXCEPT ![Page] = ack(@, opId, serverSeq)]
  /\ queueRef' # queueRef
  /\ UNCHANGED <<authState, content, revRef, storage, nextId, reconcile,
                 joinFetch, sock, netVars, boundVars, diffVars, sideVars>>

QueueSetLatestServerSeq(seq) ==
  /\ queueRef' = [queueRef EXCEPT ![Page] = setLatestServerSeq(@, seq)]
  /\ queueRef' # queueRef
  /\ UNCHANGED <<authState, content, revRef, storage, nextId, reconcile,
                 joinFetch, sock, netVars, boundVars, diffVars, sideVars>>

\* flush(sender) with the sender of resendQueue.
QueueFlush ==
  /\ c2s' = [c2s EXCEPT ![Page] = resendQueue(Page, queueRef[Page])]
  /\ UNCHANGED <<clientVars, s2c, server, boundVars, diffVars, sideVars>>

QueueNext ==
  \/ \E opId \in QueueOpIds : QueueEnqueue(opId)
  \/ \E opId \in QueueOpIds \cup {NoId} : \E serverSeq \in 0..MaxSeq :
       QueueAck(opId, serverSeq)
  \/ \E seq \in 0..MaxSeq : QueueSetLatestServerSeq(seq)
  \/ QueueFlush

SpecQueue == Init /\ [][QueueNext]_vars

(***************************************************************************)
(* C22.  latestServerSeq() never decreases under any sequence of enqueue,  *)
(* ack, setLatestServerSeq and flush calls, whatever the order of the      *)
(* revisions they carry.                                                   *)
(***************************************************************************)
C22_LatestServerSeqMonotone ==
  [][latestServerSeq(queueRef'[Page]) >= latestServerSeq(queueRef[Page])]_vars

\* The queue has seen the largest serverSeq and, after it, calls with
\* smaller ones: its entries were enqueued at two different base revisions
\* and flushed.
C22_Witness ==
  /\ latestServerSeq(queueRef[Page]) = MaxSeq
  /\ Len(queueRef[Page].q) = 2
  /\ queueRef[Page].q[1].base_rev < queueRef[Page].q[2].base_rev
  /\ Len(c2s[Page]) = 2

\* The entry of client id in a list of presence entries; the last one counts.
LastOf(list, id) ==
  LET idx == {k \in 1..Len(list) : list[k].client_id = id}
  IN  list[CHOOSE k \in idx : \A j \in idx : j <= k]

Names(list, id) == \E k \in 1..Len(list) : list[k].client_id = id

(***************************************************************************)
(* C23.  After a presence_diff for the page's slug no client of removed is *)
(* in the presence map, also when added or updated name it; of the others, *)
(* a client of updated has its fields of updated over those of its entry   *)
(* (the added one if added names it, else the one it had), a client of     *)
(* added alone has the added entry, and the rest of the map is as before.  *)
(* Presence, cursor and ime frames for another slug leave the map, and     *)
(* none of these frames changes the local text, rev or pending queue.      *)
(***************************************************************************)
C23_PresenceDiff ==
  [][(ReceiveStep
      /\ Received.type \in {"presence_diff", "presence_snapshot", "cursor",
                            "ime"})
       => LET f == Received
              ids == {e.client_id : e \in presence \cup presence'} \cup {2}
          IN  /\ content'[Page] = content[Page]
              /\ revRef'[Page] = revRef[Page]
              /\ queueRef'[Page] = queueRef[Page]
              /\ f.slug # Slug => presence' = presence
              /\ (f.type = "presence_diff" /\ f.slug = Slug) =>
                   \A id \in ids :
                     LET removed == \E k \in 1..Len(f.removed) :
                                      f.removed[k] = id
                         base == IF Names(f.added, id)
                                   THEN LastOf(f.added, id)
                                   ELSE existing(presence, id)
                         now_ == {e \in presence' : e.client_id = id}
                     IN  IF removed THEN now_ = {}
                         ELSE IF Names(f.updated, id)
                           THEN LET u == LastOf(f.updated, id)
                                IN  now_ =
                                      {[client_id |-> id,
                                        cursor |-> IF u.cursor # 0
                                                     THEN u.cursor
                                                     ELSE base.cursor,
                                        ime |-> IF u.ime # 0 THEN u.ime
                                                ELSE base.ime]}
                         ELSE IF Names(f.added, id) THEN now_ = {base}
                         ELSE now_ = {e \in presence : e.client_id = id}]_vars

\* A presence_diff that adds client 2 with a cursor and updates its ime put
\* the merged entry in the map; one for another slug left it there; and one
\* that adds, updates and removes client 2 took it out.
C23_Witness ==
  /\ Len(wFrames) = 3
  /\ wFrames[1] = [type |-> "presence_diff", slug |-> Slug,
                   added |-> <<PresenceEntry(2, 1, 0)>>,
                   updated |-> <<PresenceEntry(2, 0, 1)>>, removed |-> <<>>]
  /\ wFrames[2].type = "presence_diff"
  /\ wFrames[2].slug = OtherSlug
  /\ wFrames[3] = [type |-> "presence_diff", slug |-> Slug,
                   added |-> <<PresenceEntry(2, 1, 0)>>,
                   updated |-> <<PresenceEntry(2, 2, 0)>>, removed |-> <<2>>]
  /\ \A e \in presence : e.client_id = Page
  /\ presence # {}

(***************************************************************************)
(* C29.  On every connection the join, which goes out as the hello frame,  *)
(* is the first frame the client sends: an open socket has sent it, and no *)
(* edit, cursor, ime or profile frame is on the wire of a socket before it.*)
(***************************************************************************)
C29_JoinFirst ==
  /\ sock[Page] = "open" => wSent # <<>>
  /\ wSent # <<>> => wSent[1].type = "hello"

(***************************************************************************)
(* C30.  The pending edits a page session has persisted and that were not  *)
(* acked are in the pending queue of the page session that the reload      *)
(* starts, in their order and with their op_id and base_rev, before its    *)
(* socket opens and resends the queue.                                     *)
(***************************************************************************)
C30_RestoredAfterReload ==
  (/\ authState[NextSession] = "authorized"
   /\ sock[NextSession] = "closed"
   /\ nextId[NextSession] = 0)
    => queueRef[NextSession].q = storage[FirstSession].items

(***************************************************************************)
(* C31.  The delay of the reconnect timer set after the k-th consecutive   *)
(* close without an open between is min(10000, 500 * 2^min(8, k)) ms; it   *)
(* lies in [1000, 10000] and does not decrease from one such close to the  *)
(* next; an open sets the retry counter to 0.                              *)
(***************************************************************************)
C31_Backoff ==
  [][/\ (channel'.closes = channel.closes + 1 /\ ~channel.closed) =>
          LET k == channel'.closes
              cap == IF k < 8 THEN k ELSE 8
              want == IF 500 * 2 ^ cap < 10000 THEN 500 * 2 ^ cap ELSE 10000
          IN  /\ channel'.timerRef = want
              /\ channel'.timerRef >= 1000
              /\ channel'.timerRef <= 10000
              /\ k > 1 => channel'.timerRef >= channel.delay
              /\ want = (IF k = 1 THEN 1000 ELSE IF k = 2 THEN 2000
                         ELSE IF k = 3 THEN 4000 ELSE IF k = 4 THEN 8000
                         ELSE 10000)
     /\ (channel.ws = "CONNECTING" /\ channel'.ws = "OPEN") =>
          channel'.retryRef = 0]_vars

\* Nine closes in a row without an open: the counter is at 8 and the timer
\* is set to 10 s.
C31_Witness ==
  /\ channel.closes = 9
  /\ channel.retryRef = 8
  /\ channel.timerRef = 10000
  /\ ~channel.closed

(***************************************************************************)
(* C32.  While the effect is not cleaned up, every close of the socket,    *)
(* also one that an error event or a heartbeat timeout caused, leads to a  *)
(* new connection attempt.                                                 *)
(***************************************************************************)
C32_Reconnects ==
  (channel.ws \in {"CLOSING", "CLOSED"} /\ ~channel.closed)
    ~> (channel.ws = "CONNECTING" \/ channel.closed)

\* The socket that a timeout closed after eight straight closes was
\* followed by a further socket, which is open.
C32_Witness ==
  /\ channel.created = MaxSockets
  /\ channel.retryRef = 0
  /\ channel.ws = "OPEN"
  /\ channel.delay = 10000
  /\ ~channel.closed

(***************************************************************************)
(* C33.  After the cleanup of the effect this effect instance makes no     *)
(* further socket: no reconnect timer is pending, and close and error      *)
(* events that arrive later set none.                                      *)
(***************************************************************************)
C33_NoSocketAfterCleanup ==
  [][channel.closed =>
       /\ channel'.closed
       /\ channel'.created = channel.created
       /\ channel.timerRef = 0
       /\ channel'.timerRef = 0]_vars

\* The cleanup came while a reconnect timer was pending and after the socket
\* had closed: the timer is gone.
C33_Witness ==
  /\ channel.closed
  /\ channel.ws = "CLOSED"
  /\ channel.retryRef = 2
  /\ channel.timerRef = 0
  /\ channel.created = 2

(***************************************************************************)
(* C34.  Once the initial snapshot fetch of a page has completed, with a   *)
(* success, a 401 or any other failure, authState is not 'unknown': a page *)
(* whose load effect has no fetch in flight shows the document or the      *)
(* password form.                                                          *)
(***************************************************************************)
C34_AuthStateSettles ==
  \A c \in Clients :
    (\A k \in 1..Len(loads[c]) : ~loads[c][k].alive)
      => authState[c] # "unknown"

(***************************************************************************)
(* C35.  The answer to a snapshot fetch whose load effect was cleaned up   *)
(* before it arrived changes nothing in the page: text, rev, the queue     *)
(* with its latestServerSeq, authState, stored and active password stay.   *)
(***************************************************************************)
C35_StaleLoadChangesNothing ==
  [][\A c \in Clients :
       (\E k \in 1..Len(loads[c]) :
          /\ ~loads[c][k].alive
          /\ loads'[c] = Settled(loads[c], k))
       => /\ content'[c] = content[c]
          /\ revRef'[c] = revRef[c]
          /\ queueRef'[c] = queueRef[c]
          /\ authState'[c] = authState[c]
          /\ storedPassword'[c] = storedPassword[c]
          /\ activePassword'[c] = activePassword[c]]_vars

\* The fetch of the cancelled effect has been answered by a server that asks
\* for no password and holds a later revision; the page still waits for the
\* fetch of the live effect.
C35_Witness ==
  /\ loads[Page] = <<[alive |-> TRUE, directPassword |-> "", header |-> ""]>>
  /\ serverPassword = ""
  /\ server.rev = 1
  /\ authState[Page] = "unknown"
  /\ content[Page] = <<>>
  /\ revRef[Page] = 0

=============================================================================
